---------------------------- MODULE Spec2Model ----------------------------
(***************************************************************************)
(* The persistence layer of GaitDocumentationApp.py: class Database (the   *)
(* five SQLite tables, their constraints and the CRUD methods) and the UI  *)
(* handlers that call it.                                                  *)
(*                                                                         *)
(* Conventions.                                                            *)
(*   - A nullable Python/SQL value is None == <<>> or Some(x) == <<x>>.    *)
(*   - A date text is always the zero-padded ISO form YYYY-MM-DD (the only *)
(*     form DateEntry._update_var writes); it is encoded as the integer    *)
(*     YYYYMMDD, whose numeric order is the text order SQLite compares by. *)
(*   - A REAL BMI is encoded as the reduced fraction <<num, den>>.         *)
(***************************************************************************)
EXTENDS Integers, Sequences, FiniteSets, TLC

VARIABLES
    patients,                  \* rows of table patients
    exams,                     \* rows of table exams
    exam_attachments,          \* rows of table exam_attachments
    interventions,             \* rows of table interventions
    intervention_attachments,  \* rows of table intervention_attachments
    sqlite_sequence,           \* AUTOINCREMENT counters, one per table
    in_transaction,            \* self.conn.in_transaction
    _birth_range,              \* Database._birth_range
    lastOp,                    \* the outcome of the last call of the main thread
    today,                     \* datetime.now(), the days since the start
    backup_loop,               \* the daemon thread of schedule_daily_backup
    backups,                   \* the files of the directory backup_dir names
    attachments,               \* the files under BASE_DIR/attachments
    patient_birth_date,        \* PatientDetailWindow.patient_birth_date
    cwd,                       \* the working directory of the process
    threads,                   \* the backup_loop threads started so far
    columns                    \* the optional columns of the store's tables

\* What is fixed when the process starts and the store is opened.
process == <<cwd, threads, columns>>

vars == <<patients, exams, exam_attachments, interventions,
          intervention_attachments, sqlite_sequence, in_transaction,
          _birth_range, lastOp, today, backup_loop, backups, attachments,
          patient_birth_date, process>>

tables == <<patients, exams, exam_attachments, interventions,
            intervention_attachments, sqlite_sequence>>

\* What no method of the record store touches: the clock, the daemon thread,
\* the two directories, the detail window.
outside == <<today, backup_loop, backups, attachments, patient_birth_date, process>>

-----------------------------------------------------------------------------
(* Bounds *)

\* Rows ever inserted, in all tables together (AUTOINCREMENT never reuses an
\* identifier, so this also bounds every identifier): one bound for each
\* specification below.
MaxRows == 4
MaxPatients == 2
MaxEventRows == 2
MaxQueryRows == 3
MaxBackupRows == 1
MaxSearchRows == 2

\* Days the clock runs through.
MaxDays == 3

\* Attachment rows inserted and files under the attachments directory, in the
\* attachment windows.
MaxAttachRows == 1
MaxFiles == 2

\* Daemon threads started by schedule_daily_backup.
MaxThreads == 3

\* Rows ever inserted, in the specification of the forms.
MaxFormRows == 5

-----------------------------------------------------------------------------
(* Values *)

None == <<>>
Some(x) == <<x>>

\* Python truth value of an optional number: None and 0 are false.
TruthyNum(o) == o # None /\ o[1] # 0

RECURSIVE GCD(_, _)
GCD(a, b) == IF b = 0 THEN a ELSE GCD(b, a % b)

\* The quotient n / d (d > 0) as a reduced fraction.
Quot(n, d) ==
    LET g == GCD(IF n < 0 THEN -n ELSE n, d) IN <<n \div g, d \div g>>


-----------------------------------------------------------------------------
(* Inputs: the argument tuples the calls are made with *)

\* Arguments of add_patient / update_patient.  first_name, last_name and
\* birth_date may be None here: Database itself does not reject them, the
\* NOT NULL constraints of the table do.
PatientInput == <<
    [patient_code |-> Some("A"), first_name |-> Some("Jane"), last_name |-> Some("Doe"),
     birth_date |-> Some(19900501), diagnosis |-> Some("ACL"), gender |-> Some("Female"),
     height |-> Some(170), assistive_device |-> None, address |-> Some("Main St 1"),
     post_number |-> Some("1000"), city |-> Some("Graz"), country |-> Some("AT"),
     phone |-> Some("111"), mobile |-> Some("0660"), email |-> Some("jane@x.org")],
    [patient_code |-> Some("A"), first_name |-> Some("John"), last_name |-> Some("Roe"),
     birth_date |-> Some(19850220), diagnosis |-> Some("CP"), gender |-> Some("Male"),
     height |-> Some(182), assistive_device |-> Some("cane"), address |-> Some("Side St 2"),
     post_number |-> Some("2000"), city |-> Some("Wien"), country |-> Some("DE"),
     phone |-> Some("222"), mobile |-> Some("0670"), email |-> Some("john@x.org")],
    [patient_code |-> None, first_name |-> Some("Ann"), last_name |-> Some("Lee"),
     birth_date |-> Some(20010930), diagnosis |-> None, gender |-> None,
     height |-> None, assistive_device |-> Some("walker"), address |-> None,
     post_number |-> None, city |-> None, country |-> None,
     phone |-> None, mobile |-> None, email |-> None],
    [patient_code |-> Some("A"), first_name |-> None, last_name |-> Some("Poe"),
     birth_date |-> Some(19990101), diagnosis |-> Some("ACL"), gender |-> Some("Other"),
     height |-> Some(160), assistive_device |-> None, address |-> None,
     post_number |-> Some("1000"), city |-> None, country |-> None,
     phone |-> None, mobile |-> None, email |-> None],
    [patient_code |-> Some("C_1"), first_name |-> Some("Eva"), last_name |-> Some("Zed"),
     birth_date |-> Some(19850220), diagnosis |-> Some("50% rom"), gender |-> Some("Female"),
     height |-> None, assistive_device |-> None, address |-> None,
     post_number |-> None, city |-> Some("ACL"), country |-> None,
     phone |-> None, mobile |-> None, email |-> None]
>>

\* The file picked in the dialog of add_attachment: its name ("" when the
\* dialog was cancelled) and whether it exists when it is copied.
FileInput == <<
    [name |-> "", exists |-> FALSE],
    [name |-> "scan.pdf", exists |-> TRUE],
    [name |-> "gone.pdf", exists |-> FALSE]
>>

\* Date texts: the birth date of the patient of a detail window and the date
\* of an event.  0 stands for the empty text; 2023-02-29, 2024-13-01 and
\* 2024-04-31 are no dates.
BirthInput ==
    {None, Some(0), Some(20230229), Some(20241301), Some(19900501),
     Some(19991231), Some(20000229), Some(20200301), Some(20231215),
     Some(20240110)}
EventDateInput ==
    {None, Some(0), Some(20240431), Some(19900501), Some(19900531),
     Some(19900601), Some(19910501), Some(19940501), Some(19991231),
     Some(20000101), Some(20000229), Some(20010228), Some(20040229),
     Some(20200301), Some(20210301), Some(20231215), Some(20240110),
     Some(20240229), Some(20250110)}

\* Arguments of search_patients: the filter text and the field.
FilterInput == <<"", "acl", "o", "_", "%">>
FieldInput == <<"last_name", "diagnosis", "patient_code", "post_number", "city">>

\* Arguments of set_birth_range; 0 stands for the empty text.
RangeInput == <<None, Some(0), Some(19900501)>>

\* Arguments of add_exam / update_exam / add_intervention / update_intervention
\* (person is the examiner or the operator).
EventInput == <<
    [type |-> Some("Gait Assessment"), date |-> Some(20240110), notes |-> Some("first"),
     height_cm |-> Some(170), weight_kg |-> Some(65), assistive_device |-> None,
     person |-> Some("Dr A")],
    [type |-> Some("EMG"), date |-> Some(20230305), notes |-> None,
     height_cm |-> Some(170), weight_kg |-> Some(0), assistive_device |-> Some("cane"),
     person |-> None],
    [type |-> Some("EMG"), date |-> Some(20240110), notes |-> Some("second"),
     height_cm |-> Some(180), weight_kg |-> Some(65), assistive_device |-> Some("cane"),
     person |-> Some("Dr B")],
    [type |-> Some("Surgery"), date |-> Some(20250101), notes |-> Some(""),
     height_cm |-> None, weight_kg |-> Some(80), assistive_device |-> None,
     person |-> Some("Dr A")],
    [type |-> Some("Surgery"), date |-> Some(20230305), notes |-> None,
     height_cm |-> Some(-170), weight_kg |-> Some(65), assistive_device |-> None,
     person |-> Some("Dr A")],
    [type |-> None, date |-> Some(20240110), notes |-> None,
     height_cm |-> Some(0), weight_kg |-> None, assistive_device |-> None,
     person |-> None]
>>

\* What the user typed into the Add New Patient form: the text of each entry
\* ("" when left empty) and the DateEntry variable (0 when it holds "").
PatientForm == <<
    [patient_code |-> "A", first_name |-> "Jane", last_name |-> "Doe",
     birth_date_var |-> 19900501, diagnosis |-> "ACL", gender_var |-> "Female",
     address |-> "Main St 1", post_number |-> "1000", city |-> "Graz",
     country |-> "AT", phone |-> "111", mobile |-> "0660", email |-> "jane@x.org"],
    [patient_code |-> " A ", first_name |-> "John", last_name |-> "Roe",
     birth_date_var |-> 19850220, diagnosis |-> "", gender_var |-> "Male",
     address |-> "", post_number |-> "", city |-> "", country |-> "",
     phone |-> "", mobile |-> "", email |-> ""],
    [patient_code |-> "", first_name |-> "Ann", last_name |-> "Lee",
     birth_date_var |-> 20010930, diagnosis |-> "CP", gender_var |-> "",
     address |-> "", post_number |-> "2000", city |-> "", country |-> "",
     phone |-> "", mobile |-> "", email |-> ""],
    [patient_code |-> "B", first_name |-> " ", last_name |-> "Poe",
     birth_date_var |-> 19990101, diagnosis |-> "", gender_var |-> "",
     address |-> "", post_number |-> "", city |-> "", country |-> "",
     phone |-> "", mobile |-> "", email |-> ""],
    [patient_code |-> "B", first_name |-> "Max", last_name |-> "Poe",
     birth_date_var |-> 0, diagnosis |-> "", gender_var |-> "",
     address |-> "", post_number |-> "", city |-> "", country |-> "",
     phone |-> "", mobile |-> "", email |-> ""],
    [patient_code |-> "B", first_name |-> "Max", last_name |-> "Poe",
     birth_date_var |-> 19990101, diagnosis |-> "", gender_var |-> "",
     address |-> "", post_number |-> "", city |-> "", country |-> "",
     phone |-> "", mobile |-> "", email |-> ""]
>>

\* Arguments of add_exam_attachment / add_intervention_attachment.
AttachmentInput == <<
    [file_path |-> Some("attachments/a.pdf"), description |-> Some("a.pdf")],
    [file_path |-> None, description |-> Some("b.pdf")]
>>


-----------------------------------------------------------------------------
(* Schema: Database.__init__ and Database.create_tables *)

\* PRAGMA foreign_keys = ON, executed on the connection before any statement.
foreign_keys_off == FALSE
foreign_keys == TRUE

\* NOT NULL columns of each table
patients_not_null(r) ==
    r.first_name # None /\ r.last_name # None /\ r.birth_date # None
\* (the identifier columns are always given as integers by the callers).
exams_not_null(r) == r.exam_type # None /\ r.exam_date # None
interventions_not_null(r) ==
    r.intervention_type # None /\ r.intervention_date # None
exam_attachments_not_null(r) == r.file_path # None
intervention_attachments_not_null(r) == r.file_path # None

\* patient_code TEXT UNIQUE: no two rows share a non-NULL code (NULLs never
\* collide).  rows is the table as the statement would leave it.
patients_unique_off(rows) == TRUE
patients_unique(rows) ==
    \A p, q \in rows :
        (p.patient_id # q.patient_id /\ p.patient_code # None)
            => p.patient_code # q.patient_code

\* FOREIGN KEY (patient_id) REFERENCES patients(patient_id), checked when a
\* child row is written.
patient_exists(ps, pid) ==
    ~foreign_keys \/ \E p \in ps : p.patient_id = pid
exam_exists(es, eid) ==
    ~foreign_keys \/ \E e \in es : e.exam_id = eid
intervention_exists(is, iid) ==
    ~foreign_keys \/ \E v \in is : v.intervention_id = iid

\* ON DELETE CASCADE: the child rows that survive when the parent table
\* becomes ps / es / is.
cascade_exams(ps) ==
    IF foreign_keys
    THEN {e \in exams : \E p \in ps : p.patient_id = e.patient_id}
    ELSE exams
cascade_interventions(ps) ==
    IF foreign_keys
    THEN {v \in interventions : \E p \in ps : p.patient_id = v.patient_id}
    ELSE interventions
cascade_exam_attachments(es) ==
    IF foreign_keys
    THEN {a \in exam_attachments : \E e \in es : e.exam_id = a.exam_id}
    ELSE exam_attachments
cascade_intervention_attachments(is) ==
    IF foreign_keys
    THEN {a \in intervention_attachments :
              \E v \in is : v.intervention_id = a.intervention_id}
    ELSE intervention_attachments

\* INTEGER PRIMARY KEY AUTOINCREMENT: the next rowid is one past the largest
\* the table ever held.
next_id(table) == sqlite_sequence[table] + 1

\* The identifiers a call may name: every one the table has assigned so far
\* (its row may be deleted by now) and one it has not assigned.
Ids(table) == 1 .. next_id(table)

\* Rows inserted so far, in all tables.
inserted ==
    sqlite_sequence.patients + sqlite_sequence.exams
    + sqlite_sequence.exam_attachments + sqlite_sequence.interventions
    + sqlite_sequence.intervention_attachments

-----------------------------------------------------------------------------
(* Outcomes of a call *)

NoError == [exc |-> "", cause |-> ""]
UniqueViolation == [exc |-> "IntegrityError", cause |-> "UNIQUE constraint failed"]
NotNullViolation == [exc |-> "IntegrityError", cause |-> "NOT NULL constraint failed"]
ForeignKeyViolation == [exc |-> "IntegrityError", cause |-> "FOREIGN KEY constraint failed"]
\* Any failure of the engine itself (disk I/O error, database is locked, ...).
StoreFailure == [exc |-> "OperationalError", cause |-> "disk I/O error"]
\* Not an exception: the call is still retrying and will never return.
NeverReturns == [exc |-> "", cause |-> "sqlite3_backup_step: SQLITE_BUSY, retried"]

\* The outcome of a call: the method, the identifier it returned (0 if none),
\* the exception it raised, the message box its UI handler showed (<<>> if
\* none), the rows it fetched (<<>> if none).
Call(op, ret, err, msg) ==
    [op |-> op, ret |-> ret, err |-> err, msg |-> msg, rows |-> <<>>]
Query(op, rows) ==
    [op |-> op, ret |-> 0, err |-> NoError, msg |-> <<>>, rows |-> rows]

\* cur.execute(<INSERT / UPDATE / DELETE>); self.conn.commit(): the sqlite3
\* module opens a transaction before the statement; the commit that closes it
\* is skipped when the statement raises, and no method rolls back.  A failed
\* statement changes nothing by itself; a failure of the engine may or may not
\* roll the transaction back.
execute_commit_skipped(err) == in_transaction' = TRUE
execute_commit(err) ==
    in_transaction' \in IF err = NoError THEN {FALSE}
                        ELSE IF err.exc = "IntegrityError" THEN {TRUE}
                        ELSE BOOLEAN

-----------------------------------------------------------------------------
(* Patients *)

PatientRow(id, d) ==
    [patient_id |-> id, patient_code |-> d.patient_code,
     first_name |-> d.first_name, last_name |-> d.last_name,
     birth_date |-> d.birth_date, diagnosis |-> d.diagnosis,
     gender |-> d.gender, height |-> d.height,
     assistive_device |-> d.assistive_device, address |-> d.address,
     post_number |-> d.post_number, city |-> d.city, country |-> d.country,
     phone |-> d.phone, mobile |-> d.mobile, email |-> d.email]

\* Database.add_patient: the INSERT.  fault: the engine fails the statement.
add_patient_row(d) == PatientRow(next_id("patients"), d)

add_patient_error(d, fault) ==
    IF fault THEN StoreFailure
    ELSE IF ~patients_not_null(add_patient_row(d)) THEN NotNullViolation
    ELSE IF ~patients_unique(patients \cup {add_patient_row(d)}) THEN UniqueViolation
    ELSE NoError

\* The statement and the commit: all or nothing.
add_patient_effect(d, fault) ==
    IF add_patient_error(d, fault) = NoError
    THEN /\ patients' = patients \cup {add_patient_row(d)}
         /\ sqlite_sequence' =
                [sqlite_sequence EXCEPT !.patients = next_id("patients")]
         /\ UNCHANGED <<exams, exam_attachments, interventions,
                        intervention_attachments>>
    ELSE UNCHANGED tables

add_patient(i, fault) ==
    LET d == PatientInput[i]
        err == add_patient_error(d, fault)
    IN  /\ add_patient_effect(d, fault)
        /\ execute_commit(err)
        /\ lastOp' = Call("add_patient",
                          IF err = NoError THEN next_id("patients") ELSE 0,
                          err, <<>>)

\* Database.update_patient: the SET list names thirteen columns; height and
\* assistive_device are not among them.
update_patient_row_without_email(p, d) ==
    [p EXCEPT !.first_name = d.first_name, !.last_name = d.last_name,
              !.birth_date = d.birth_date, !.diagnosis = d.diagnosis,
              !.gender = d.gender, !.patient_code = d.patient_code,
              !.address = d.address, !.post_number = d.post_number,
              !.city = d.city, !.country = d.country, !.phone = d.phone,
              !.mobile = d.mobile]
update_patient_row(p, d) ==
    [p EXCEPT !.first_name = d.first_name, !.last_name = d.last_name,
              !.birth_date = d.birth_date, !.diagnosis = d.diagnosis,
              !.gender = d.gender, !.patient_code = d.patient_code,
              !.address = d.address, !.post_number = d.post_number,
              !.city = d.city, !.country = d.country, !.phone = d.phone,
              !.mobile = d.mobile, !.email = d.email]

update_patient_table(pid, d) ==
    {IF p.patient_id = pid THEN update_patient_row(p, d) ELSE p : p \in patients}

update_patient_error_unchecked(pid, d, fault) ==
    IF fault THEN StoreFailure
    ELSE IF \E p \in update_patient_table(pid, d) : ~patients_not_null(p)
         THEN NotNullViolation
    ELSE NoError
update_patient_error(pid, d, fault) ==
    IF fault THEN StoreFailure
    ELSE IF \E p \in update_patient_table(pid, d) : ~patients_not_null(p)
         THEN NotNullViolation
    ELSE IF ~patients_unique(update_patient_table(pid, d)) THEN UniqueViolation
    ELSE NoError

update_patient_effect(pid, d, fault) ==
    IF update_patient_error(pid, d, fault) = NoError
    THEN /\ patients' = update_patient_table(pid, d)
         /\ UNCHANGED <<exams, exam_attachments, interventions,
                        intervention_attachments, sqlite_sequence>>
    ELSE UNCHANGED tables

update_patient(pid, i, fault) ==
    LET d == PatientInput[i]
    IN  /\ update_patient_effect(pid, d, fault)
        /\ execute_commit(update_patient_error(pid, d, fault))
        /\ lastOp' = Call("update_patient", 0,
                          update_patient_error(pid, d, fault), <<>>)

\* Database.delete_patient: the DELETE and what the cascade rules remove.
delete_patient_table(pid) == {p \in patients : p.patient_id # pid}

delete_patient(pid, fault) ==
    /\ IF fault
       THEN UNCHANGED tables
       ELSE /\ patients' = delete_patient_table(pid)
            /\ exams' = cascade_exams(delete_patient_table(pid))
            /\ interventions' = cascade_interventions(delete_patient_table(pid))
            /\ exam_attachments' =
                   cascade_exam_attachments(cascade_exams(delete_patient_table(pid)))
            /\ intervention_attachments' =
                   cascade_intervention_attachments(
                       cascade_interventions(delete_patient_table(pid)))
            /\ UNCHANGED sqlite_sequence
    /\ execute_commit(IF fault THEN StoreFailure ELSE NoError)
    /\ lastOp' = Call("delete_patient", 0,
                      IF fault THEN StoreFailure ELSE NoError, <<>>)

-----------------------------------------------------------------------------
(* AddPatientWindow *)

\* str.strip, on the texts of PatientForm.
strip(t) == CASE t = " " -> "" [] t = " A " -> "A" [] OTHER -> t

\* get_val: widget.get().strip() or None
get_val(t) == IF strip(t) = "" THEN None ELSE Some(strip(t))
get_date(t) == IF t = 0 THEN None ELSE Some(t)

\* The arguments add_patient is called with: height and assistive_device are
\* not on the form and take their defaults.
form_args(f) ==
    [patient_code |-> get_val(f.patient_code), first_name |-> get_val(f.first_name),
     last_name |-> get_val(f.last_name), birth_date |-> get_date(f.birth_date_var),
     diagnosis |-> get_val(f.diagnosis), gender |-> get_val(f.gender_var),
     height |-> None, assistive_device |-> None,
     address |-> get_val(f.address), post_number |-> get_val(f.post_number),
     city |-> get_val(f.city), country |-> get_val(f.country),
     phone |-> get_val(f.phone), mobile |-> get_val(f.mobile),
     email |-> get_val(f.email)]

\* if not (fname and lname and birth): warning, return
form_complete_off(d) == TRUE
form_complete(d) ==
    d.first_name # None /\ d.last_name # None /\ d.birth_date # None

\* The except clauses of the handler: the message box for an exception.
add_patient_message(err) ==
    IF err = NoError THEN <<>>
    ELSE IF err.exc = "IntegrityError"
         THEN <<"Save Error", "A patient with the Patient ID already exists">>
    ELSE <<"Error", err.cause>>

\* AddPatientWindow.add_patient: the submit handler of the form.
AddPatientWindow_add_patient(j, fault) ==
    LET d == form_args(PatientForm[j])
        err == add_patient_error(d, fault)
    IN  IF ~form_complete(d)
        THEN /\ UNCHANGED tables
             /\ UNCHANGED in_transaction
             /\ lastOp' = Call("AddPatientWindow.add_patient", 0, NoError,
                               <<"Missing Required Data",
                                 "First Name, Last Name, and Birth Date are required.">>)
        ELSE /\ add_patient_effect(d, fault)
             /\ execute_commit(err)
             /\ lastOp' = Call("AddPatientWindow.add_patient",
                               IF err = NoError THEN next_id("patients") ELSE 0,
                               err, add_patient_message(err))

-----------------------------------------------------------------------------
(* BMI: the same five lines open add_exam, add_intervention, update_exam and
   update_intervention *)

\* if height_cm and weight_kg and height_cm > 0:
\*     bmi = weight_kg / ((height_cm / 100.0) ** 2)
compute_bmi(height_cm, weight_kg) ==
    IF TruthyNum(height_cm) /\ TruthyNum(weight_kg) /\ height_cm[1] > 0
    THEN Some(Quot(weight_kg[1] * 10000, height_cm[1] * height_cm[1]))
    ELSE None

-----------------------------------------------------------------------------
(* Exams *)

\* Database.add_exam: the BMI, then the INSERT.
add_exam_row_swapped(pid, d) ==
    [exam_id |-> next_id("exams"), patient_id |-> pid,
     exam_type |-> d.type, exam_date |-> d.date, notes |-> d.notes,
     height_cm |-> d.height_cm, weight_kg |-> d.weight_kg,
     assistive_device |-> d.person,
     bmi |-> compute_bmi(d.height_cm, d.weight_kg),
     examiner |-> d.assistive_device]
add_exam_row(pid, d) ==
    [exam_id |-> next_id("exams"), patient_id |-> pid,
     exam_type |-> d.type, exam_date |-> d.date, notes |-> d.notes,
     height_cm |-> d.height_cm, weight_kg |-> d.weight_kg,
     assistive_device |-> d.assistive_device,
     bmi |-> compute_bmi(d.height_cm, d.weight_kg), examiner |-> d.person]

add_exam_error(pid, d) ==
    IF ~exams_not_null(add_exam_row(pid, d)) THEN NotNullViolation
    ELSE IF ~patient_exists(patients, pid) THEN ForeignKeyViolation
    ELSE NoError

add_exam(pid, d) ==
    LET err == add_exam_error(pid, d)
    IN  /\ IF err = NoError
           THEN /\ exams' = exams \cup {add_exam_row(pid, d)}
                /\ sqlite_sequence' =
                       [sqlite_sequence EXCEPT !.exams = next_id("exams")]
                /\ UNCHANGED <<patients, exam_attachments, interventions, intervention_attachments>>
           ELSE UNCHANGED tables
        /\ execute_commit(err)
        /\ lastOp' = Call("add_exam",
                          IF err = NoError THEN next_id("exams") ELSE 0, err, <<>>)

\* Database.update_exam: the BMI again, then the UPDATE.
update_exam_row_stale_bmi(e, d) ==
    [e EXCEPT !.exam_type = d.type, !.exam_date = d.date, !.notes = d.notes,
              !.height_cm = d.height_cm, !.weight_kg = d.weight_kg,
              !.assistive_device = d.assistive_device, !.examiner = d.person]
update_exam_row(e, d) ==
    [e EXCEPT !.exam_type = d.type, !.exam_date = d.date, !.notes = d.notes,
              !.height_cm = d.height_cm, !.weight_kg = d.weight_kg,
              !.assistive_device = d.assistive_device,
              !.bmi = compute_bmi(d.height_cm, d.weight_kg),
              !.examiner = d.person]

update_exam_table(id, d) ==
    {IF e.exam_id = id THEN update_exam_row(e, d) ELSE e : e \in exams}

update_exam_error(id, d) ==
    IF \E e \in update_exam_table(id, d) : ~exams_not_null(e)
    THEN NotNullViolation
    ELSE NoError

update_exam(id, d) ==
    LET err == update_exam_error(id, d)
    IN  /\ IF err = NoError
           THEN /\ exams' = update_exam_table(id, d)
                /\ UNCHANGED <<patients, exam_attachments, interventions, intervention_attachments, sqlite_sequence>>
           ELSE UNCHANGED tables
        /\ execute_commit(err)
        /\ lastOp' = Call("update_exam", 0, err, <<>>)

\* Database.delete_exam: the DELETE and what the cascade rule removes.
delete_exam_table_by_patient(id) == {e \in exams : e.patient_id # id}
delete_exam_table(id) == {e \in exams : e.exam_id # id}

delete_exam(id) ==
    /\ exams' = delete_exam_table(id)
    /\ exam_attachments' = cascade_exam_attachments(delete_exam_table(id))
    /\ UNCHANGED <<patients, interventions, intervention_attachments, sqlite_sequence>>
    /\ execute_commit(NoError)
    /\ lastOp' = Call("delete_exam", 0, NoError, <<>>)

\* Database.add_exam_attachment
add_exam_attachment_row(id, d) ==
    [file_id |-> next_id("exam_attachments"), exam_id |-> id,
     file_path |-> d.file_path, description |-> d.description]

add_exam_attachment_error(id, d) ==
    IF ~exam_attachments_not_null(add_exam_attachment_row(id, d)) THEN NotNullViolation
    ELSE IF ~exam_exists(exams, id) THEN ForeignKeyViolation
    ELSE NoError

\* The statement and the commit: all or nothing.
add_exam_attachment_effect(id, d) ==
    /\ IF add_exam_attachment_error(id, d) = NoError
       THEN /\ exam_attachments' = exam_attachments \cup {add_exam_attachment_row(id, d)}
            /\ sqlite_sequence' =
                   [sqlite_sequence EXCEPT !.exam_attachments = next_id("exam_attachments")]
            /\ UNCHANGED <<patients, exams, interventions, intervention_attachments>>
       ELSE UNCHANGED tables
    /\ execute_commit(add_exam_attachment_error(id, d))

add_exam_attachment(id, j) ==
    LET d == AttachmentInput[j]
        err == add_exam_attachment_error(id, d)
    IN  /\ add_exam_attachment_effect(id, d)
        /\ lastOp' = Call("add_exam_attachment",
                          IF err = NoError THEN next_id("exam_attachments") ELSE 0, err, <<>>)

\* Database.delete_exam_attachment
delete_exam_attachment_effect(fid) ==
    /\ exam_attachments' = {a \in exam_attachments : a.file_id # fid}
    /\ UNCHANGED <<patients, exams, interventions, intervention_attachments, sqlite_sequence>>
    /\ execute_commit(NoError)

delete_exam_attachment(fid) ==
    /\ delete_exam_attachment_effect(fid)
    /\ lastOp' = Call("delete_exam_attachment", 0, NoError, <<>>)

-----------------------------------------------------------------------------
(* Interventions *)

\* Database.add_intervention: the BMI, then the INSERT.
add_intervention_row(pid, d) ==
    [intervention_id |-> next_id("interventions"), patient_id |-> pid,
     intervention_type |-> d.type, intervention_date |-> d.date, notes |-> d.notes,
     height_cm |-> d.height_cm, weight_kg |-> d.weight_kg,
     assistive_device |-> d.assistive_device,
     bmi |-> compute_bmi(d.height_cm, d.weight_kg), operator |-> d.person]

add_intervention_error(pid, d) ==
    IF ~interventions_not_null(add_intervention_row(pid, d)) THEN NotNullViolation
    ELSE IF ~patient_exists(patients, pid) THEN ForeignKeyViolation
    ELSE NoError

add_intervention(pid, d) ==
    LET err == add_intervention_error(pid, d)
    IN  /\ IF err = NoError
           THEN /\ interventions' = interventions \cup {add_intervention_row(pid, d)}
                /\ sqlite_sequence' =
                       [sqlite_sequence EXCEPT !.interventions = next_id("interventions")]
                /\ UNCHANGED <<patients, exams, exam_attachments, intervention_attachments>>
           ELSE UNCHANGED tables
        /\ execute_commit(err)
        /\ lastOp' = Call("add_intervention",
                          IF err = NoError THEN next_id("interventions") ELSE 0, err, <<>>)

\* Database.update_intervention: the BMI again, then the UPDATE.
update_intervention_row(e, d) ==
    [e EXCEPT !.intervention_type = d.type, !.intervention_date = d.date, !.notes = d.notes,
              !.height_cm = d.height_cm, !.weight_kg = d.weight_kg,
              !.assistive_device = d.assistive_device,
              !.bmi = compute_bmi(d.height_cm, d.weight_kg),
              !.operator = d.person]

update_intervention_table(id, d) ==
    {IF e.intervention_id = id THEN update_intervention_row(e, d) ELSE e : e \in interventions}

update_intervention_error(id, d) ==
    IF \E e \in update_intervention_table(id, d) : ~interventions_not_null(e)
    THEN NotNullViolation
    ELSE NoError

update_intervention(id, d) ==
    LET err == update_intervention_error(id, d)
    IN  /\ IF err = NoError
           THEN /\ interventions' = update_intervention_table(id, d)
                /\ UNCHANGED <<patients, exams, exam_attachments, intervention_attachments, sqlite_sequence>>
           ELSE UNCHANGED tables
        /\ execute_commit(err)
        /\ lastOp' = Call("update_intervention", 0, err, <<>>)

\* Database.delete_intervention: the DELETE and what the cascade rule removes.
delete_intervention_table(id) == {e \in interventions : e.intervention_id # id}

delete_intervention(id) ==
    /\ interventions' = delete_intervention_table(id)
    /\ intervention_attachments' = cascade_intervention_attachments(delete_intervention_table(id))
    /\ UNCHANGED <<patients, exams, exam_attachments, sqlite_sequence>>
    /\ execute_commit(NoError)
    /\ lastOp' = Call("delete_intervention", 0, NoError, <<>>)

\* Database.add_intervention_attachment
add_intervention_attachment_row(id, d) ==
    [file_id |-> next_id("intervention_attachments"), intervention_id |-> id,
     file_path |-> d.file_path, description |-> d.description]

add_intervention_attachment_error(id, d) ==
    IF ~intervention_attachments_not_null(add_intervention_attachment_row(id, d)) THEN NotNullViolation
    ELSE IF ~intervention_exists(interventions, id) THEN ForeignKeyViolation
    ELSE NoError

\* The statement and the commit: all or nothing.
add_intervention_attachment_effect(id, d) ==
    /\ IF add_intervention_attachment_error(id, d) = NoError
       THEN /\ intervention_attachments' = intervention_attachments \cup {add_intervention_attachment_row(id, d)}
            /\ sqlite_sequence' =
                   [sqlite_sequence EXCEPT !.intervention_attachments = next_id("intervention_attachments")]
            /\ UNCHANGED <<patients, exams, exam_attachments, interventions>>
       ELSE UNCHANGED tables
    /\ execute_commit(add_intervention_attachment_error(id, d))

add_intervention_attachment(id, j) ==
    LET d == AttachmentInput[j]
        err == add_intervention_attachment_error(id, d)
    IN  /\ add_intervention_attachment_effect(id, d)
        /\ lastOp' = Call("add_intervention_attachment",
                          IF err = NoError THEN next_id("intervention_attachments") ELSE 0, err, <<>>)

\* Database.delete_intervention_attachment
delete_intervention_attachment_effect(fid) ==
    /\ intervention_attachments' = {a \in intervention_attachments : a.file_id # fid}
    /\ UNCHANGED <<patients, exams, exam_attachments, interventions, sqlite_sequence>>
    /\ execute_commit(NoError)

delete_intervention_attachment(fid) ==
    /\ delete_intervention_attachment_effect(fid)
    /\ lastOp' = Call("delete_intervention_attachment", 0, NoError, <<>>)

-----------------------------------------------------------------------------
(* Queries *)

\* The orders in which a SELECT may return the rows of S.
Orders(S) ==
    {s \in [1 .. Cardinality(S) -> S] : \A i, j \in DOMAIN s : i # j => s[i] # s[j]}

\* fetchone() of SELECT * ... WHERE <primary key> = ?: None or the row.
get_patient_row(patient_id) ==
    IF \E p \in patients : p.patient_id = patient_id
    THEN Some(CHOOSE p \in patients : p.patient_id = patient_id)
    ELSE None
get_exam_row(exam_id) ==
    IF \E e \in exams : e.exam_id = exam_id
    THEN Some(CHOOSE e \in exams : e.exam_id = exam_id)
    ELSE None
get_intervention_row(intervention_id) ==
    IF \E v \in interventions : v.intervention_id = intervention_id
    THEN Some(CHOOSE v \in interventions : v.intervention_id = intervention_id)
    ELSE None

get_patient(patient_id) ==
    /\ lastOp' = Query("get_patient", get_patient_row(patient_id))
    /\ UNCHANGED tables
    /\ UNCHANGED in_transaction
get_exam(exam_id) ==
    /\ lastOp' = Query("get_exam", get_exam_row(exam_id))
    /\ UNCHANGED tables
    /\ UNCHANGED in_transaction
get_intervention(intervention_id) ==
    /\ lastOp' = Query("get_intervention", get_intervention_row(intervention_id))
    /\ UNCHANGED tables
    /\ UNCHANGED in_transaction

\* SELECT * FROM exams WHERE patient_id = ? ORDER BY exam_date DESC: every
\* order of the matching rows the ORDER BY allows (rows of equal date come in
\* any order).
get_exams_rows_ascending(patient_id) ==
    {s \in Orders({e \in exams : e.patient_id = patient_id}) :
        \A i, j \in DOMAIN s : i < j => s[i].exam_date[1] <= s[j].exam_date[1]}
get_exams_rows(patient_id) ==
    {s \in Orders({e \in exams : e.patient_id = patient_id}) :
        \A i, j \in DOMAIN s : i < j => s[i].exam_date[1] >= s[j].exam_date[1]}
get_interventions_rows(patient_id) ==
    {s \in Orders({v \in interventions : v.patient_id = patient_id}) :
        \A i, j \in DOMAIN s :
            i < j => s[i].intervention_date[1] >= s[j].intervention_date[1]}

get_exams(patient_id) ==
    /\ \E s \in get_exams_rows(patient_id) : lastOp' = Query("get_exams", s)
    /\ UNCHANGED tables
    /\ UNCHANGED in_transaction
get_interventions(patient_id) ==
    /\ \E s \in get_interventions_rows(patient_id) :
           lastOp' = Query("get_interventions", s)
    /\ UNCHANGED tables
    /\ UNCHANGED in_transaction

\* SELECT file_id, file_path, description ... WHERE exam_id = ? ORDER BY file_id
attachment_columns(a) ==
    [file_id |-> a.file_id, file_path |-> a.file_path,
     description |-> a.description]
get_exam_attachments_rows(exam_id) ==
    {s \in Orders({attachment_columns(a) :
                      a \in {x \in exam_attachments : x.exam_id = exam_id}}) :
        \A i, j \in DOMAIN s : i < j => s[i].file_id < s[j].file_id}
get_intervention_attachments_rows(intervention_id) ==
    {s \in Orders({attachment_columns(a) :
                      a \in {x \in intervention_attachments :
                                x.intervention_id = intervention_id}}) :
        \A i, j \in DOMAIN s : i < j => s[i].file_id < s[j].file_id}

get_exam_attachments(exam_id) ==
    /\ \E s \in get_exam_attachments_rows(exam_id) :
           lastOp' = Query("get_exam_attachments", s)
    /\ UNCHANGED tables
    /\ UNCHANGED in_transaction
get_intervention_attachments(intervention_id) ==
    /\ \E s \in get_intervention_attachments_rows(intervention_id) :
           lastOp' = Query("get_intervention_attachments", s)
    /\ UNCHANGED tables
    /\ UNCHANGED in_transaction

-----------------------------------------------------------------------------
(* AttachmentWindowBase: the attachment window of an exam or an intervention *)

\* attachments_dir = base_dir / "attachments" / sub / patient_code / date_part,
\* from the record of the event and of its patient (-1 stands for the
\* placeholder "unknown_date" among the date texts).
attachments_dir(event_type, event_id) ==
    LET sub == IF event_type = "Exam" THEN "exams" ELSE "interventions"
        rec == IF event_type = "Exam" THEN get_exam_row(event_id)
               ELSE get_intervention_row(event_id)
        pid == IF rec = None THEN None ELSE Some(rec[1].patient_id)
        event_date == IF rec = None THEN None
                      ELSE IF event_type = "Exam" THEN rec[1].exam_date
                      ELSE rec[1].intervention_date
        pat == IF pid = None THEN None ELSE get_patient_row(pid[1])
        pcode == IF pat = None THEN None ELSE pat[1].patient_code
        code == IF pid = None THEN "unknown"
                ELSE IF pcode # None /\ pcode[1] # "" THEN pcode[1]
                ELSE ToString(pid[1])
        date_part == IF TruthyNum(event_date) THEN event_date[1] ELSE -1
    IN  <<"attachments", sub, code, date_part>>

\* Path.exists, os.path.exists
exists(path) == \E f \in attachments : f.path = path

\* dest_path: the first of attachments_dir / basename (counter 0) and
\* attachments_dir / f"{stem}_{counter}{ext}", counter 1, 2, ..., that does
\* not exist.
RECURSIVE unique_dest_path(_, _, _)
unique_dest_path(dir, name, counter) ==
    LET dest_path == [dir |-> dir, name |-> name, counter |-> counter]
    IN  IF exists(dest_path)
        THEN unique_dest_path(dir, name, counter + 1)
        ELSE dest_path

\* What may go wrong between the dialog and the end of the copy.
CopyFaults == {"none", "mkdir", "copy"}

\* attachments_dir.mkdir(...); shutil.copy2(file_path, dest_path)
copy2_error(file, fault) ==
    IF fault = "mkdir"
    THEN [exc |-> "PermissionError", cause |-> "Permission denied"]
    ELSE IF ~file.exists
    THEN [exc |-> "FileNotFoundError", cause |-> "No such file or directory"]
    ELSE IF fault = "copy"
    THEN [exc |-> "OSError", cause |-> "No space left on device"]
    ELSE NoError

\* The files afterwards: the copy when it completed; when the copy broke off,
\* what was written of it so far, or nothing; nothing when the source could
\* not be opened.
copy2_files(file, dest, fault) ==
    IF copy2_error(file, fault) = NoError
    THEN {attachments \cup {[path |-> dest, complete |-> TRUE]}}
    ELSE IF fault = "copy" /\ file.exists
    THEN {attachments, attachments \cup {[path |-> dest, complete |-> FALSE]}}
    ELSE {attachments}

\* The INSERT is inside the try block, after shutil.copy2.
add_attachment_inserts_always(copy_err) == TRUE
add_attachment_inserts(copy_err) == copy_err = NoError

\* AttachmentWindowBase.add_attachment; the handler catches every exception
\* and shows it, or shows "Attached".
add_attachment(event_type, event_id, f, fault) ==
    LET file == FileInput[f]
        desc == file.name
        dest == unique_dest_path(attachments_dir(event_type, event_id),
                                 file.name, 0)
        d == [file_path |-> Some(dest), description |-> Some(desc)]
        copy_err == copy2_error(file, fault)
        err == IF copy_err # NoError THEN copy_err
               ELSE IF event_type = "Exam"
               THEN add_exam_attachment_error(event_id, d)
               ELSE add_intervention_attachment_error(event_id, d)
    IN  /\ IF file.name = ""
           THEN /\ UNCHANGED <<tables, in_transaction, attachments>>
                /\ lastOp' = Call("add_attachment", 0, NoError, <<>>)
           ELSE /\ attachments' \in copy2_files(file, dest, fault)
                /\ IF add_attachment_inserts(copy_err)
                   THEN IF event_type = "Exam"
                        THEN add_exam_attachment_effect(event_id, d)
                        ELSE add_intervention_attachment_effect(event_id, d)
                   ELSE UNCHANGED <<tables, in_transaction>>
                /\ lastOp' = Call("add_attachment", 0, NoError,
                                  IF err = NoError THEN <<"Attached", desc>>
                                  ELSE <<"Error", err.cause>>)
        /\ UNCHANGED <<_birth_range, today, backup_loop, backups,
                       patient_birth_date, process>>

\* The rows of the tree: get_exam_attachments / get_intervention_attachments
\* of the event, as refresh_attachments loaded them.
attach_tree(event_type, event_id) ==
    IF event_type = "Exam"
    THEN {a \in exam_attachments : a.exam_id = event_id}
    ELSE {a \in intervention_attachments : a.intervention_id = event_id}

\* os.remove(path)
os_remove_error(fault) ==
    IF fault THEN [exc |-> "PermissionError", cause |-> "Permission denied"]
    ELSE NoError

\* try: os.remove(path) / except Exception: pass
os_remove_except_reraised(e) == e
os_remove_except(e) == NoError

\* AttachmentWindowBase.delete_attachment: selection is None or the selected
\* row of the tree, yes the answer to the confirmation, fault the failure of
\* os.remove.
delete_attachment(event_type, selection, yes, fault) ==
    /\ IF selection = None
       THEN /\ UNCHANGED <<tables, in_transaction, attachments>>
            /\ lastOp' = Call("delete_attachment", 0, NoError,
                              <<"No Selection",
                                "Please select an attachment to delete.">>)
       ELSE IF ~yes
       THEN /\ UNCHANGED <<tables, in_transaction, attachments>>
            /\ lastOp' = Call("delete_attachment", 0, NoError, <<>>)
       ELSE LET file_id == selection[1].file_id
                path == selection[1].file_path
                removes == path # None /\ exists(path[1])
                err == IF removes THEN os_remove_except(os_remove_error(fault))
                       ELSE NoError
            IN  /\ IF event_type = "Exam"
                   THEN delete_exam_attachment_effect(file_id)
                   ELSE delete_intervention_attachment_effect(file_id)
                /\ attachments' =
                       IF removes /\ os_remove_error(fault) = NoError
                       THEN {f \in attachments : f.path # path[1]}
                       ELSE attachments
                /\ lastOp' = Call("delete_attachment", 0, NoError,
                                  IF err = NoError THEN <<>>
                                  ELSE <<"Error", err.cause>>)
    /\ UNCHANGED <<_birth_range, today, backup_loop, backups,
                   patient_birth_date, process>>

\* The files after Database.delete_exam, delete_intervention or delete_patient
\* removed the attachment rows naming paths: the DELETE and its cascade work
\* on the database alone.
cascade_files_removed(paths) == {f \in attachments : f.path \notin paths}
cascade_files(paths) == attachments

\* A file under the attachments directory is removed or moved away outside
\* the application.
file_removed_outside ==
    /\ \E f \in attachments : attachments' = attachments \ {f}
    /\ UNCHANGED <<tables, in_transaction, _birth_range, lastOp, today,
                   backup_loop, backups, patient_birth_date, process>>

-----------------------------------------------------------------------------
(* Search *)

\* The characters of a text, as code points: of every text the searched
\* columns and the filter take here.
chars(s) ==
    CASE s = "" -> <<>>
      [] s = "Doe" -> <<68, 111, 101>>
      [] s = "Roe" -> <<82, 111, 101>>
      [] s = "Lee" -> <<76, 101, 101>>
      [] s = "Poe" -> <<80, 111, 101>>
      [] s = "Zed" -> <<90, 101, 100>>
      [] s = "ACL" -> <<65, 67, 76>>
      [] s = "CP" -> <<67, 80>>
      [] s = "acl" -> <<97, 99, 108>>
      [] s = "50% rom" -> <<53, 48, 37, 32, 114, 111, 109>>
      [] s = "A" -> <<65>>
      [] s = "C_1" -> <<67, 95, 49>>
      [] s = "1000" -> <<49, 48, 48, 48>>
      [] s = "2000" -> <<50, 48, 48, 48>>
      [] s = "o" -> <<111>>
      [] s = "_" -> <<95>>
      [] s = "%" -> <<37>>

\* ASCII lower case: LIKE compares the letters A-Z without regard to case.
lower(c) == IF c >= 65 /\ c <= 90 THEN c + 32 ELSE c

\* text LIKE pattern, with no ESCAPE: % (37) matches any run of characters,
\* _ (95) any one character, any other character itself.
RECURSIVE like(_, _)
like(pattern, text) ==
    IF pattern = <<>> THEN text = <<>>
    ELSE IF Head(pattern) = 37
    THEN like(Tail(pattern), text) \/ (text # <<>> /\ like(pattern, Tail(text)))
    ELSE /\ text # <<>>
         /\ (Head(pattern) = 95 \/ lower(Head(pattern)) = lower(Head(text)))
         /\ like(Tail(pattern), Tail(text))

\* if field not in {...}: field = "last_name"
search_field_as_given(field) == field
search_field(field) ==
    IF field \in {"last_name", "diagnosis", "patient_code", "post_number"}
    THEN field ELSE "last_name"

\* if filter_text: f"{field} LIKE ?" with f"%{filter_text}%" (NULL LIKE ? is
\* not true)
search_text_condition(p, filter_text, field) ==
    filter_text # "" =>
        /\ p[search_field(field)] # None
        /\ like(<<37>> \o chars(filter_text) \o <<37>>,
                chars(p[search_field(field)][1]))

\* birth_range = getattr(self, "_birth_range", None); if start: birth_date >= ?;
\* if end: birth_date <= ?
search_range_condition_exclusive(p) ==
    _birth_range # None =>
        /\ TruthyNum(_birth_range[1]) => p.birth_date[1] > _birth_range[1][1]
        /\ TruthyNum(_birth_range[2]) => p.birth_date[1] < _birth_range[2][1]
search_range_condition(p) ==
    _birth_range # None =>
        /\ TruthyNum(_birth_range[1]) => p.birth_date[1] >= _birth_range[1][1]
        /\ TruthyNum(_birth_range[2]) => p.birth_date[1] <= _birth_range[2][1]

\* The order of two texts under the BINARY collation.
RECURSIVE text_le(_, _)
text_le(a, b) ==
    IF a = <<>> THEN TRUE
    ELSE IF b = <<>> THEN FALSE
    ELSE IF Head(a) # Head(b) THEN Head(a) < Head(b)
    ELSE text_le(Tail(a), Tail(b))

\* SELECT * FROM patients WHERE ... ORDER BY last_name: every order of the
\* matching rows the ORDER BY allows.
search_patients_rows(filter_text, field) ==
    {s \in Orders({p \in patients :
                      /\ search_text_condition(p, filter_text, field)
                      /\ search_range_condition(p)}) :
        \A i, j \in DOMAIN s :
            i < j => text_le(chars(s[i].last_name[1]), chars(s[j].last_name[1]))}

search_patients_consuming_range(filter_text, field) ==
    /\ \E s \in search_patients_rows(filter_text, field) :
           lastOp' = Query("search_patients", s)
    /\ _birth_range' = None
    /\ UNCHANGED <<tables, in_transaction>>
search_patients(filter_text, field) ==
    /\ \E s \in search_patients_rows(filter_text, field) :
           lastOp' = Query("search_patients", s)
    /\ UNCHANGED <<tables, in_transaction, _birth_range>>

\* Database.set_birth_range
set_birth_range(start, end) ==
    /\ _birth_range' = <<start, end>>
    /\ lastOp' = Call("set_birth_range", 0, NoError, <<>>)
    /\ UNCHANGED <<tables, in_transaction>>

-----------------------------------------------------------------------------
(* Age at an event *)

\* datetime.strptime(text, "%Y-%m-%d") of a date text YYYY-MM-DD (encoded
\* YYYYMMDD): None where it raises ValueError, else the date as its proleptic
\* Gregorian ordinal.
strptime(t) ==
    LET year == t \div 10000
        month == (t \div 100) % 100
        day == t % 100
        is_leap == (year % 4 = 0 /\ year % 100 # 0) \/ year % 400 = 0
        days_in_month ==
            <<31, IF is_leap THEN 29 ELSE 28, 31, 30, 31, 30, 31, 31, 30, 31, 30, 31>>
        days_before_month ==
            <<0, 31, 59, 90, 120, 151, 181, 212, 243, 273, 304, 334>>
    IN  IF /\ year >= 1
           /\ month \in 1 .. 12
           /\ day >= 1
           /\ day <= days_in_month[month]
        THEN Some(365 * (year - 1) + ((year - 1) \div 4)
                  - ((year - 1) \div 100) + ((year - 1) \div 400)
                  + days_before_month[month]
                  + (IF month > 2 /\ is_leap THEN 1 ELSE 0) + day)
        ELSE None

\* age_days = (ed - bd).days
age_days_reversed(bd, ed) == bd - ed
age_days(bd, ed) == ed - bd

\* int((age_days % 365.25) // 30.44): the remainder is ((4 * days) % 1461) / 4,
\* 30.44 = 3044 / 100
age_months_of_30_days(days) == ((4 * days) % 1461) \div 120
age_months(days) == (((4 * days) % 1461) * 25) \div 3044

\* The text the method returns: "" or f"{age_years}y, {age_months}m", with
\* age_years = int(age_days // 365.25): floor division, 365.25 = 1461 / 4.
age_text(birth, event_date_str) ==
    IF ~TruthyNum(birth) \/ ~TruthyNum(event_date_str) THEN <<>>
    ELSE IF strptime(birth[1]) = None \/ strptime(event_date_str[1]) = None
    THEN <<>>
    ELSE LET days == age_days(strptime(birth[1])[1],
                              strptime(event_date_str[1])[1])
             age_years == (4 * days) \div 1461
         IN  <<age_years, "y, ", age_months(days), "m">>

\* PatientDetailWindow._calculate_age_at_event
_calculate_age_at_event(event_date_str) ==
    /\ lastOp' = Query("_calculate_age_at_event",
                       age_text(patient_birth_date, event_date_str))
    /\ UNCHANGED <<tables, in_transaction, _birth_range, today, backup_loop,
                   backups, attachments, patient_birth_date, process>>

-----------------------------------------------------------------------------
(* Backup *)

\* The thread that ran sqlite3.connect in Database.__init__; check_same_thread
\* keeps its default, True.
conn_thread == "MainThread"

\* datetime.now().strftime("%Y%m%d"); day 1 is 2024-01-10.
strftime(day) == 20240109 + day

\* backup_name = f"{base}_backup_{date_str}.db", with
\* base = os.path.splitext(os.path.basename(self.db_path))[0]
backup_name(day) ==
    LET base == "health_records"
    IN  <<base, "_backup_", strftime(day), ".db">>

\* What self.conn.backup copies: every page of the store.  A file is the
\* sequence of the database images in it: none or one.
snapshot ==
    <<[patients |-> patients, exams |-> exams,
     exam_attachments |-> exam_attachments, interventions |-> interventions,
     intervention_attachments |-> intervention_attachments,
     sqlite_sequence |-> sqlite_sequence]>>

\* The ways the environment fails a step of backup_database.
BackupFaults == {"none", "mkdir", "connect", "backup"}

\* What is raised inside the try of backup_database, by the thread that calls
\* it: mkdir, then sqlite3.connect(dest_path), then self.conn.backup, which
\* first checks the calling thread, then retries for as long as the source
\* connection holds a write transaction, then copies.
backup_error(thread, fault) ==
    IF fault = "mkdir"
    THEN [exc |-> "PermissionError", cause |-> "mkdir"]
    ELSE IF fault = "connect"
    THEN [exc |-> "OperationalError", cause |-> "unable to open database file"]
    ELSE IF thread # conn_thread
    THEN [exc |-> "ProgrammingError",
          cause |-> "SQLite objects created in a thread can only be used in that same thread"]
    ELSE IF in_transaction THEN NeverReturns
    ELSE IF fault = "backup"
    THEN [exc |-> "OperationalError", cause |-> "database or disk is full"]
    ELSE NoError

\* The backup directory afterwards: nothing new when the destination was not
\* opened; the snapshot when the copy completed; otherwise the file as it
\* was, or the file of 0 bytes sqlite3.connect created.
backup_files(thread, fault) ==
    LET name == backup_name(today)
        empty_file == <<>>
        written(c) == [n \in DOMAIN backups \cup {name} |->
                          IF n = name THEN c ELSE backups[n]]
    IN  IF fault \in {"mkdir", "connect"} THEN backups
        ELSE IF backup_error(thread, fault) = NoError THEN written(snapshot)
        ELSE IF name \in DOMAIN backups THEN backups
        ELSE written(empty_file)

\* except Exception as e: print(f"Backup Error: {e}")
backup_database_except_reraised(e) == e
backup_database_except(e) == IF e = NeverReturns THEN NeverReturns ELSE NoError

\* Database.backup_database, called on the main thread.
backup_database(fault) ==
    LET e == backup_error(conn_thread, fault)
        printed == IF e = NoError \/ e = NeverReturns THEN <<>>
                   ELSE <<"Backup Error", e.cause>>
    IN
    /\ backups' = backup_files(conn_thread, fault)
    /\ lastOp' = Call("backup_database", 0, backup_database_except(e), printed)
    /\ UNCHANGED <<tables, in_transaction, _birth_range, today, backup_loop,
                   attachments, patient_birth_date, process>>

\* The clock passes midnight.
midnight ==
    /\ today < MaxDays
    /\ today' = today + 1
    /\ UNCHANGED <<tables, in_transaction, _birth_range, lastOp, backup_loop,
                   backups, attachments, patient_birth_date, process>>

\* wait_seconds = (next_midnight - now).total_seconds() and the argument of
\* time.sleep, max(1, wait_seconds), in milliseconds; now is a time of its
\* day, in milliseconds since 00:00, and next_midnight is 00:00 of the day
\* after.
sleep_seconds_unclamped(now) == 86400000 - now
sleep_seconds(now) ==
    LET next_midnight == [day |-> 1, ms |-> 0]
        wait_seconds == (next_midnight.day * 86400000 + next_midnight.ms) - now
    IN  IF wait_seconds > 1000 THEN wait_seconds ELSE 1000

\* backup_loop: time.sleep(max(1, wait_seconds)) returns, at or after the
\* midnight computed when the pass began.
backup_loop_sleep_at_once ==
    /\ backup_loop.pc = "Idle"
    /\ backup_loop' = [backup_loop EXCEPT !.pc = "Running"]
    /\ UNCHANGED <<tables, in_transaction, _birth_range, lastOp, today,
                   backups, attachments, patient_birth_date, process>>
backup_loop_sleep ==
    /\ backup_loop.pc = "Idle"
    /\ today >= backup_loop.next_midnight
    /\ backup_loop' = [backup_loop EXCEPT !.pc = "Running"]
    /\ UNCHANGED <<tables, in_transaction, _birth_range, lastOp, today,
                   backups, attachments, patient_birth_date, process>>

\* backup_loop: self.backup_database(backup_dir) on the daemon thread, then
\* the top of the while loop: now, next_midnight.  An exception that leaves
\* backup_database ends the thread.
backup_loop_backup(fault) ==
    LET e == backup_error("backup_loop", fault)
    IN  /\ backup_loop.pc = "Running"
        /\ backups' = backup_files("backup_loop", fault)
        /\ \E now \in {0, 43200000, 86399000, 86399500} : backup_loop' =
               IF backup_database_except(e) = NoError
               THEN [pc |-> "Idle", next_midnight |-> today + 1, err |-> e,
                     wait |-> sleep_seconds(now)]
               ELSE [backup_loop EXCEPT !.pc = "Dead", !.err = e]
        /\ UNCHANGED <<tables, in_transaction, _birth_range, lastOp, today,
                       attachments, patient_birth_date, process>>

-----------------------------------------------------------------------------
(* The forms of exams, interventions and the patient editor *)

\* What the user typed into a form of an exam or an intervention: the text
\* of each entry, the DateEntry variable (0 when it holds ""), and the height
\* and weight entries as their characters (48-57 are the digits, 32 the
\* space, 44 the comma, 97-99 "abc").
EventForm == <<
    [type |-> "Gait Assessment", date_var |-> 20240110, notes |-> "first",
     height |-> <<49, 55, 48>>, weight |-> <<32, 54, 53, 32>>, device |-> "",
     person |-> "Dr A"],
    [type |-> "EMG", date_var |-> 20230305, notes |-> "", height |-> <<>>,
     weight |-> <<32>>, device |-> "cane", person |-> ""],
    [type |-> " ", date_var |-> 20240110, notes |-> "", height |-> <<49, 55, 48>>,
     weight |-> <<54, 53>>, device |-> "", person |-> ""],
    [type |-> "EMG", date_var |-> 0, notes |-> "", height |-> <<>>,
     weight |-> <<>>, device |-> "", person |-> ""],
    [type |-> "EMG", date_var |-> 20240110, notes |-> "", height |-> <<97, 98, 99>>,
     weight |-> <<54, 53>>, device |-> "", person |-> ""],
    [type |-> "EMG", date_var |-> 20240110, notes |-> "", height |-> <<>>,
     weight |-> <<54, 44, 53>>, device |-> "", person |-> "Dr A"],
    [type |-> "", date_var |-> 20240110, notes |-> "", height |-> <<97, 98, 99>>,
     weight |-> <<>>, device |-> "", person |-> ""]
>>

\* float(text), on the texts of EventForm: the number a run of digits
\* denotes, spaces around it ignored; None stands for ValueError.
float(text) ==
    LET RECURSIVE lstrip(_), value(_)
        lstrip(s) == IF s # <<>> /\ Head(s) = 32 THEN lstrip(Tail(s)) ELSE s
        reversed(s) == [k \in 1 .. Len(s) |-> s[Len(s) + 1 - k]]
        t == reversed(lstrip(reversed(lstrip(text))))
        value(s) == IF s = <<>> THEN 0
                    ELSE 10 * value(SubSeq(s, 1, Len(s) - 1)) + (s[Len(s)] - 48)
    IN  IF t # <<>> /\ \A k \in 1 .. Len(t) : t[k] \in 48 .. 57
        THEN Some(value(t))
        ELSE None

\* The checks of a handler, in its order (the add handlers look at the
\* required entries first, the edit handlers last): the warning shown, or
\* <<>> when the form passes.
\*     if not (type and date): showwarning("Missing data", ...); return
\*     try: height = float(h_text) if h_text else None
\*     except Exception: showwarning("Invalid height", ...); return
event_form_warning_none(f, required_first, required_text) == <<>>
event_form_warning(f, required_first, required_text) ==
    LET blank(t) == \A k \in 1 .. Len(t) : t[k] = 32
        missing == strip(f.type) = "" \/ f.date_var = 0
    IN  IF required_first /\ missing THEN <<"Missing data", required_text>>
        ELSE IF ~blank(f.height) /\ float(f.height) = None
        THEN <<"Invalid height", "Height must be a number.">>
        ELSE IF ~blank(f.weight) /\ float(f.weight) = None
        THEN <<"Invalid weight", "Weight must be a number.">>
        ELSE IF missing THEN <<"Missing data", required_text>>
        ELSE <<>>

\* The arguments the store is called with: type, date and notes as stripped
\* texts, the others as stripped text or None, the numbers as float or None.
event_form_args(f) ==
    LET blank(t) == \A k \in 1 .. Len(t) : t[k] = 32
    IN  [type |-> Some(strip(f.type)), date |-> Some(f.date_var),
         notes |-> Some(strip(f.notes)),
         height_cm |-> IF blank(f.height) THEN None ELSE float(f.height),
         weight_kg |-> IF blank(f.weight) THEN None ELSE float(f.weight),
         assistive_device |-> get_val(f.device), person |-> get_val(f.person)]

\* PatientDetailWindow.add_exam: the submit handler of the exam form of the
\* patient with identifier pid.
PatientDetailWindow_add_exam(pid, j) ==
    LET w == event_form_warning(EventForm[j], TRUE, "Exam type and date are required.")
    IN  IF w # <<>>
        THEN /\ UNCHANGED <<tables, in_transaction>>
             /\ lastOp' = Call("PatientDetailWindow.add_exam", 0, NoError, w)
        ELSE add_exam(pid, event_form_args(EventForm[j]))

\* PatientDetailWindow.add_intervention
PatientDetailWindow_add_intervention(pid, j) ==
    LET w == event_form_warning(EventForm[j], TRUE,
                                "Intervention type and date are required.")
    IN  IF w # <<>>
        THEN /\ UNCHANGED <<tables, in_transaction>>
             /\ lastOp' = Call("PatientDetailWindow.add_intervention", 0, NoError, w)
        ELSE add_intervention(pid, event_form_args(EventForm[j]))

\* EditExamWindow.save, in the window of the exam with identifier id.
EditExamWindow_save(id, j) ==
    LET w == event_form_warning(EventForm[j], FALSE,
                                "Examination type and date are required.")
    IN  IF w # <<>>
        THEN /\ UNCHANGED <<tables, in_transaction>>
             /\ lastOp' = Call("EditExamWindow.save", 0, NoError, w)
        ELSE update_exam(id, event_form_args(EventForm[j]))

\* EditInterventionWindow.save
EditInterventionWindow_save(id, j) ==
    LET w == event_form_warning(EventForm[j], FALSE,
                                "Intervention type and date are required.")
    IN  IF w # <<>>
        THEN /\ UNCHANGED <<tables, in_transaction>>
             /\ lastOp' = Call("EditInterventionWindow.save", 0, NoError, w)
        ELSE update_intervention(id, event_form_args(EventForm[j]))

\* EditPatientWindow.save: the entries are those of the Add New Patient
\* form.  Only sqlite3.IntegrityError is caught.
EditPatientWindow_save(pid, j, fault) ==
    LET d == form_args(PatientForm[j])
    IN  IF ~form_complete(d)
        THEN /\ UNCHANGED <<tables, in_transaction>>
             /\ lastOp' = Call("EditPatientWindow.save", 0, NoError,
                               <<"Missing data",
                                 "First name, last name and birth date are required.">>)
        ELSE LET err == update_patient_error(pid, d, fault)
             IN  /\ update_patient_effect(pid, d, fault)
                 /\ execute_commit(err)
                 /\ lastOp' = Call("EditPatientWindow.save", 0, err,
                                   IF err = NoError
                                   THEN <<"Updated", "Patient information updated.">>
                                   ELSE IF err.exc = "IntegrityError"
                                   THEN <<"Save Error",
                                          "A patient with the Patient ID already exists">>
                                   ELSE <<>>)

-----------------------------------------------------------------------------
(* Startup *)

\* main(): db_path = app_data_path / 'health_records.db', a path of
\* directories and a file name.
db_path == <<"app_data_path", "health_records.db">>

\* Path(backup_dir) of backup_database with backup_dir = "backups": a relative
\* path, which mkdir and sqlite3.connect resolve against the working
\* directory of the process.
backup_dir_path == cwd \o <<"backups">>

\* The columns of the five tables: those only CREATE TABLE names, and those
\* of patient_cols, exam_cols and interv_cols, which create_tables also adds
\* to a table that exists.
schema ==
    [patients |->
         [base |-> {"patient_id", "patient_code", "first_name", "last_name",
                    "birth_date", "diagnosis"},
          optional |-> {"gender", "height", "assistive_device", "address",
                        "post_number", "city", "country", "phone", "mobile",
                        "email"}],
     exams |->
         [base |-> {"exam_id", "patient_id", "exam_type", "exam_date", "notes"},
          optional |-> {"height_cm", "weight_kg", "assistive_device", "bmi",
                        "examiner"}],
     exam_attachments |->
         [base |-> {"file_id", "exam_id", "file_path", "description"},
          optional |-> {}],
     interventions |->
         [base |-> {"intervention_id", "patient_id", "intervention_type",
                    "intervention_date", "notes"},
          optional |-> {"height_cm", "weight_kg", "assistive_device", "bmi",
                        "operator"}],
     intervention_attachments |->
         [base |-> {"file_id", "intervention_id", "file_path", "description"},
          optional |-> {}]]

\* try: cur.execute(f"ALTER TABLE ...") / except sqlite3.OperationalError: pass
alter_except_reraised(e) == e
alter_except(e) == IF e.exc = "OperationalError" THEN NoError ELSE e

\* Database.create_tables: the exception that leaves it, if any, and the
\* columns afterwards.  fault is "none" or the reason the engine refuses
\* every write of this call (the file is locked by another process, is
\* read-only, cannot be written); the sqlite3 module raises each of these as
\* OperationalError.  executescript creates the tables that are missing, with
\* all their columns, and writes nothing when none is missing; then one
\* ALTER TABLE for each optional column, which fails with "duplicate column
\* name" when the table has the column.
create_tables_result(fault) ==
    LET engine_error == [exc |-> "OperationalError", cause |-> fault]
        duplicate == [exc |-> "OperationalError", cause |-> "duplicate column name"]
        missing_tables == {t \in DOMAIN schema : ~\E c \in columns : c[1] = t}
        script_error ==
            IF missing_tables # {} /\ fault # "none" THEN engine_error
            ELSE NoError
        created ==
            columns \cup
            UNION {{<<t, c>> : c \in schema[t].base \cup schema[t].optional} :
                   t \in missing_tables}
        optional_columns ==
            UNION {{<<t, c>> : c \in schema[t].optional} : t \in DOMAIN schema}
        alter_error(tc) ==
            IF tc \in created THEN duplicate
            ELSE IF fault # "none" THEN engine_error
            ELSE NoError
        raised == {alter_except(alter_error(tc)) : tc \in optional_columns}
                  \ {NoError}
        added == {tc \in optional_columns : alter_error(tc) = NoError}
    IN  IF script_error # NoError
        THEN [err |-> script_error, columns |-> columns]
        ELSE IF raised # {}
        THEN [err |-> CHOOSE e \in raised : TRUE, columns |-> created]
        ELSE [err |-> NoError, columns |-> created \cup added]

\* Database.create_tables, called again on the open store.  executescript
\* and commit end the transaction a failed statement left open.
create_tables(fault) ==
    LET r == create_tables_result(fault)
    IN  /\ columns' = r.columns
        /\ in_transaction' = FALSE
        /\ lastOp' = Call("create_tables", 0, r.err, <<>>)
        /\ UNCHANGED <<tables, _birth_range, today, backup_loop, backups,
                       attachments, patient_birth_date, cwd, threads>>

\* Database.schedule_daily_backup: one more daemon thread running
\* backup_loop.  backup_loop is the state of the first of them; every thread
\* runs the same loop on the same clock.
schedule_daily_backup ==
    /\ threads' = threads + 1
    /\ lastOp' = Call("schedule_daily_backup", 0, NoError, <<>>)
    /\ UNCHANGED <<tables, in_transaction, _birth_range, today, backup_loop,
                   backups, attachments, patient_birth_date, cwd, columns>>

\* main(): db = Database(str(db_path)), which connects, calls create_tables
\* and then schedule_daily_backup; an exception is reported as a critical
\* error and the program ends.
__init__(fault) ==
    LET r == create_tables_result(fault)
    IN  /\ lastOp.op = "main"
        /\ columns' = r.columns
        /\ threads' = IF r.err = NoError THEN threads + 1 ELSE threads
        /\ backup_loop' =
               IF r.err = NoError
               THEN [pc |-> "Idle", next_midnight |-> today + 1,
                     err |-> NoError, wait |-> sleep_seconds(43200000)]
               ELSE backup_loop
        /\ lastOp' = Call("__init__", 0, r.err,
                          IF r.err = NoError THEN <<>>
                          ELSE <<"CRITICAL ERROR", r.err.cause>>)
        /\ UNCHANGED <<tables, in_transaction, _birth_range, today, backups,
                       attachments, patient_birth_date, cwd>>

-----------------------------------------------------------------------------
(* Specification *)

Init ==
    /\ patients = {}
    /\ exams = {}
    /\ exam_attachments = {}
    /\ interventions = {}
    /\ intervention_attachments = {}
    /\ sqlite_sequence = [patients |-> 0, exams |-> 0, exam_attachments |-> 0,
                          interventions |-> 0, intervention_attachments |-> 0]
    /\ in_transaction = FALSE
    /\ _birth_range = None
    /\ lastOp = Call("__init__", 0, NoError, <<>>)
    /\ today = 1
    /\ backup_loop = [pc |-> "Idle", next_midnight |-> 2, err |-> NoError,
                      wait |-> sleep_seconds(43200000)]
    /\ backups = <<>>
    /\ attachments = {}
    /\ patient_birth_date = None
    /\ cwd = <<"app_data_path">>
    /\ threads = 1
    /\ columns = UNION {{<<t, c>> : c \in schema[t].base \cup schema[t].optional} :
                        t \in DOMAIN schema}

\* The main thread makes a call only when its previous call has returned.
returned == lastOp.err # NeverReturns

\* The calls on the patients table, with arguments PatientInput[i], i \in PI;
\* an insert is made only while fewer than max rows were ever inserted.
PatientCalls(PI, max) ==
    \/ \E i \in PI, fault \in BOOLEAN :
           /\ returned /\ add_patient(i, fault) /\ inserted' <= max
           /\ UNCHANGED <<_birth_range, outside>>
    \/ \E pid \in Ids("patients"), i \in PI :
           /\ returned /\ update_patient(pid, i, FALSE)
           /\ UNCHANGED <<_birth_range, outside>>
    \/ \E pid \in Ids("patients") :
           /\ returned /\ delete_patient(pid, FALSE)
           /\ UNCHANGED <<_birth_range, outside>>

\* The same calls while the engine does not fail.
PatientCallsNoFault(PI, max) ==
    \/ \E i \in PI :
           /\ returned /\ add_patient(i, FALSE) /\ inserted' <= max
           /\ UNCHANGED <<_birth_range, outside>>
    \/ \E pid \in Ids("patients"), i \in PI :
           /\ returned /\ update_patient(pid, i, FALSE)
           /\ UNCHANGED <<_birth_range, outside>>
    \/ \E pid \in Ids("patients") :
           /\ returned /\ delete_patient(pid, FALSE)
           /\ UNCHANGED <<_birth_range, outside>>

\* The calls on exams and interventions, with arguments EventInput[i], i \in EI.
EventCalls(EI, max) ==
    \/ \E pid \in Ids("patients"), i \in EI :
           /\ returned /\ add_exam(pid, EventInput[i]) /\ inserted' <= max
           /\ UNCHANGED <<_birth_range, outside>>
    \/ \E id \in Ids("exams"), i \in EI :
           /\ returned /\ update_exam(id, EventInput[i])
           /\ UNCHANGED <<_birth_range, outside>>
    \/ \E id \in Ids("exams") :
           /\ returned /\ delete_exam(id)
           /\ UNCHANGED <<_birth_range, outside>>
    \/ \E pid \in Ids("patients"), i \in EI :
           /\ returned /\ add_intervention(pid, EventInput[i]) /\ inserted' <= max
           /\ UNCHANGED <<_birth_range, outside>>
    \/ \E id \in Ids("interventions"), i \in EI :
           /\ returned /\ update_intervention(id, EventInput[i])
           /\ UNCHANGED <<_birth_range, outside>>
    \/ \E id \in Ids("interventions") :
           /\ returned /\ delete_intervention(id)
           /\ UNCHANGED <<_birth_range, outside>>

\* The calls on the two attachment tables.
AttachmentCalls(AI, max) ==
    \/ \E id \in Ids("exams"), j \in AI :
           /\ returned /\ add_exam_attachment(id, j) /\ inserted' <= max
           /\ UNCHANGED <<_birth_range, outside>>
    \/ \E fid \in Ids("exam_attachments") :
           /\ returned /\ delete_exam_attachment(fid)
           /\ UNCHANGED <<_birth_range, outside>>
    \/ \E id \in Ids("interventions"), j \in AI :
           /\ returned /\ add_intervention_attachment(id, j) /\ inserted' <= max
           /\ UNCHANGED <<_birth_range, outside>>
    \/ \E fid \in Ids("intervention_attachments") :
           /\ returned /\ delete_intervention_attachment(fid)
           /\ UNCHANGED <<_birth_range, outside>>

\* All five tables, few argument values.
Next ==
    \/ PatientCalls({3, 4}, MaxRows)
    \/ EventCalls({1, 2}, MaxRows)
    \/ AttachmentCalls({1}, MaxRows)

Spec == Init /\ [][Next]_vars

\* The same calls and the reads the UI makes.
NextQueries ==
    \/ PatientCalls({3}, MaxQueryRows)
    \/ EventCalls({1, 2}, MaxQueryRows)
    \/ AttachmentCalls({1}, MaxQueryRows)
    \/ \E id \in Ids("patients") :
           returned /\ get_patient(id) /\ UNCHANGED <<_birth_range, outside>>
    \/ \E id \in Ids("exams") :
           returned /\ get_exam(id) /\ UNCHANGED <<_birth_range, outside>>
    \/ \E id \in Ids("interventions") :
           returned /\ get_intervention(id) /\ UNCHANGED <<_birth_range, outside>>
    \/ \E id \in Ids("patients") :
           returned /\ get_exams(id) /\ UNCHANGED <<_birth_range, outside>>
    \/ \E id \in Ids("patients") :
           returned /\ get_interventions(id) /\ UNCHANGED <<_birth_range, outside>>
    \/ \E id \in Ids("exams") :
           returned /\ get_exam_attachments(id)
           /\ UNCHANGED <<_birth_range, outside>>
    \/ \E id \in Ids("interventions") :
           returned /\ get_intervention_attachments(id)
           /\ UNCHANGED <<_birth_range, outside>>

SpecQueries == Init /\ [][NextQueries]_vars

\* The patients table alone, every argument tuple, and the Add New Patient form.
NextPatients ==
    \/ PatientCalls({1, 2, 3, 4}, MaxPatients)
    \/ \E j \in DOMAIN PatientForm, fault \in BOOLEAN :
           /\ returned /\ AddPatientWindow_add_patient(j, fault)
           /\ inserted' <= MaxPatients
           /\ UNCHANGED <<_birth_range, outside>>

SpecPatients == Init /\ [][NextPatients]_vars

\* Exams and interventions with every argument tuple.
NextEvents ==
    \/ PatientCalls({1, 3}, MaxEventRows)
    \/ EventCalls(DOMAIN EventInput, MaxEventRows)

SpecEvents == Init /\ [][NextEvents]_vars

\* The patients table with two argument tuples, the snapshot on demand and the
\* clock.
NextBackup ==
    \/ PatientCallsNoFault({1, 4}, MaxBackupRows)
    \/ \E fault \in BackupFaults :
           returned /\ backup_database(fault)
    \/ midnight

SpecBackup == Init /\ [][NextBackup]_vars

\* The patients table with two argument tuples, the clock and the daemon thread.
NextScheduler ==
    \/ PatientCallsNoFault({1, 4}, MaxBackupRows)
    \/ midnight
    \/ backup_loop_sleep
    \/ \E fault \in BackupFaults : backup_loop_backup(fault)

SpecScheduler == Init /\ [][NextScheduler]_vars

\* The same while the thread keeps time: time.sleep returns at the midnight
\* it waited for and the attempt ends before the next one, so the clock
\* passes a midnight only while the thread sleeps towards it.  The thread is
\* scheduled when it can run, and time passes.
NextSchedulerOnTime ==
    \/ PatientCallsNoFault({1, 4}, MaxBackupRows)
    \/ /\ backup_loop.pc = "Idle"
       /\ today < backup_loop.next_midnight
       /\ midnight
    \/ backup_loop_sleep
    \/ \E fault \in BackupFaults : backup_loop_backup(fault)

SpecSchedulerOnTime ==
    /\ Init
    /\ [][NextSchedulerOnTime]_vars
    /\ WF_vars(midnight)
    /\ WF_vars(backup_loop_sleep)
    /\ WF_vars(\E fault \in BackupFaults : backup_loop_backup(fault))

\* The patients table with two argument tuples, the birth-date range and
\* the search.
NextSearch ==
    \/ PatientCallsNoFault({1, 5}, MaxSearchRows)
    \/ \E a, b \in DOMAIN RangeInput :
           /\ returned /\ set_birth_range(RangeInput[a], RangeInput[b])
           /\ UNCHANGED outside
    \/ \E f \in DOMAIN FilterInput, c \in DOMAIN FieldInput :
           /\ returned /\ search_patients(FilterInput[f], FieldInput[c])
           /\ UNCHANGED outside

SpecSearch == Init /\ [][NextSearch]_vars

\* A detail window of a patient with any birth date text; the clock runs.
InitAge ==
    /\ patients = {}
    /\ exams = {}
    /\ exam_attachments = {}
    /\ interventions = {}
    /\ intervention_attachments = {}
    /\ sqlite_sequence = [patients |-> 0, exams |-> 0, exam_attachments |-> 0,
                          interventions |-> 0, intervention_attachments |-> 0]
    /\ in_transaction = FALSE
    /\ _birth_range = None
    /\ lastOp = Call("__init__", 0, NoError, <<>>)
    /\ today = 1
    /\ backup_loop = [pc |-> "Idle", next_midnight |-> 2, err |-> NoError,
                      wait |-> sleep_seconds(43200000)]
    /\ backups = <<>>
    /\ attachments = {}
    /\ patient_birth_date \in BirthInput
    /\ cwd = <<"app_data_path">>
    /\ threads = 1
    /\ columns = UNION {{<<t, c>> : c \in schema[t].base \cup schema[t].optional} :
                        t \in DOMAIN schema}

NextAge ==
    \/ \E e \in EventDateInput : returned /\ _calculate_age_at_event(e)
    \/ midnight

SpecAge == InitAge /\ [][NextAge]_vars

\* The attachment windows of the exam of a patient who has a patient code and
\* of the intervention of a patient who has none.
InitAttach ==
    /\ sqlite_sequence = [patients |-> 2, exams |-> 1, exam_attachments |-> 0,
                          interventions |-> 1, intervention_attachments |-> 0]
    /\ patients = {PatientRow(1, PatientInput[1]), PatientRow(2, PatientInput[3])}
    /\ exams = {[add_exam_row(1, EventInput[1]) EXCEPT !.exam_id = 1]}
    /\ exam_attachments = {}
    /\ interventions =
           {[add_intervention_row(2, EventInput[4]) EXCEPT !.intervention_id = 1]}
    /\ intervention_attachments = {}
    /\ in_transaction = FALSE
    /\ _birth_range = None
    /\ lastOp = Call("__init__", 0, NoError, <<>>)
    /\ today = 1
    /\ backup_loop = [pc |-> "Idle", next_midnight |-> 2, err |-> NoError,
                      wait |-> sleep_seconds(43200000)]
    /\ backups = <<>>
    /\ attachments = {}
    /\ patient_birth_date = None
    /\ cwd = <<"app_data_path">>
    /\ threads = 1
    /\ columns = UNION {{<<t, c>> : c \in schema[t].base \cup schema[t].optional} :
                        t \in DOMAIN schema}

\* The two windows (each is modal while it is open, and opens for an event
\* that exists), the files under the attachments directory, and the removal
\* of the exam, of the intervention or of the second patient in the other
\* windows.
NextAttach ==
    \/ \E f \in DOMAIN FileInput, fault \in CopyFaults :
           /\ get_exam_row(1) # None
           /\ returned /\ add_attachment("Exam", 1, f, fault)
           /\ sqlite_sequence'.exam_attachments
                  + sqlite_sequence'.intervention_attachments <= MaxAttachRows
           /\ Cardinality(attachments') <= MaxFiles
    \/ \E f \in DOMAIN FileInput, fault \in CopyFaults :
           /\ get_intervention_row(1) # None
           /\ returned /\ add_attachment("Intervention", 1, f, fault)
           /\ sqlite_sequence'.exam_attachments
                  + sqlite_sequence'.intervention_attachments <= MaxAttachRows
           /\ Cardinality(attachments') <= MaxFiles
    \/ \E event_type \in {"Exam", "Intervention"}, yes \in BOOLEAN,
          fault \in BOOLEAN :
           \E selection \in {None} \cup {Some(a) : a \in attach_tree(event_type, 1)} :
               returned /\ delete_attachment(event_type, selection, yes, fault)
    \/ returned /\ file_removed_outside
    \/ \E op \in {"delete_exam", "delete_intervention", "delete_patient"} :
           /\ returned
           /\ \/ op = "delete_exam" /\ delete_exam(1)
              \/ op = "delete_intervention" /\ delete_intervention(1)
              \/ op = "delete_patient" /\ delete_patient(2, FALSE)
           /\ attachments' =
                  cascade_files(
                      {a.file_path[1] : a \in exam_attachments \ exam_attachments'}
                      \cup {a.file_path[1] : a \in intervention_attachments
                                                    \ intervention_attachments'})
           /\ UNCHANGED <<_birth_range, today, backup_loop, backups,
                          patient_birth_date, process>>

SpecAttach == InitAttach /\ [][NextAttach]_vars

\* The program from its start: the store file is absent, or was left by an
\* earlier version of the program (with a patient row in it), or is current;
\* the process is started in the directory of the store or elsewhere.  Then
\* the construction of Database and, once it succeeded, calls on it.
InitStartup ==
    LET of(kind) == UNION {{<<t, c>> : c \in schema[t][kind]} : t \in DOMAIN schema}
        old_row(r) == [f \in DOMAIN r |->
                          IF <<"patients", f>> \in columns THEN r[f] ELSE None]
    IN  /\ columns \in {{}, {tc \in of("base") : tc[1] \in {"patients", "exams"}},
                        of("base"), of("base") \cup {<<"patients", "gender">>},
                        of("base") \cup of("optional")}
        /\ patients = IF columns = {} THEN {}
                      ELSE {old_row(PatientRow(1, PatientInput[1]))}
        /\ exams = {}
        /\ exam_attachments = {}
        /\ interventions = {}
        /\ intervention_attachments = {}
        /\ sqlite_sequence = [patients |-> Cardinality(patients), exams |-> 0,
                              exam_attachments |-> 0, interventions |-> 0,
                              intervention_attachments |-> 0]
        /\ in_transaction = FALSE
        /\ _birth_range = None
        /\ lastOp = Call("main", 0, NoError, <<>>)
        /\ today = 1
        /\ backup_loop = [pc |-> "Unstarted", next_midnight |-> 0,
                          err |-> NoError, wait |-> 0]
        /\ backups = <<>>
        /\ attachments = {}
        /\ patient_birth_date = None
        /\ cwd \in {<<"app_data_path">>, <<"Desktop">>}
        /\ threads = 0

NextStartup ==
    LET faults == {"none", "database is locked",
                   "attempt to write a readonly database", "disk I/O error"}
        opened == lastOp.op # "main" /\ (lastOp.op = "__init__" => lastOp.err = NoError)
        current == \A t \in DOMAIN schema :
                       \A c \in schema[t].base \cup schema[t].optional :
                           <<t, c>> \in columns
    IN  \/ \E fault \in faults : __init__(fault)
        \/ \E fault \in faults : opened /\ returned /\ create_tables(fault)
        \/ opened /\ returned /\ threads < MaxThreads /\ schedule_daily_backup
        \/ \E fault \in BackupFaults : opened /\ returned /\ backup_database(fault)
        \/ opened /\ current /\ PatientCallsNoFault({3}, MaxPatients)

SpecStartup == InitStartup /\ [][NextStartup]_vars

\* The forms, on a store that holds two patients, an exam of the first and
\* an intervention of the second, while the engine does not fail.  The
\* patient forms are a complete one without a code, one with a blank first
\* name and one without a birth date.
NextForms ==
    \/ \E j \in {3, 4, 5} :
           /\ returned /\ AddPatientWindow_add_patient(j, FALSE)
           /\ inserted' <= MaxFormRows
           /\ UNCHANGED <<_birth_range, outside>>
    \/ \E j \in {3, 4, 5} :
           /\ returned /\ EditPatientWindow_save(2, j, FALSE)
           /\ UNCHANGED <<_birth_range, outside>>
    \/ \E j \in DOMAIN EventForm :
           /\ returned /\ PatientDetailWindow_add_exam(1, j)
           /\ inserted' <= MaxFormRows
           /\ UNCHANGED <<_birth_range, outside>>
    \/ \E j \in DOMAIN EventForm :
           /\ returned /\ PatientDetailWindow_add_intervention(2, j)
           /\ inserted' <= MaxFormRows
           /\ UNCHANGED <<_birth_range, outside>>
    \/ \E j \in DOMAIN EventForm :
           /\ returned /\ EditExamWindow_save(1, j)
           /\ UNCHANGED <<_birth_range, outside>>
    \/ \E j \in DOMAIN EventForm :
           /\ returned /\ EditInterventionWindow_save(1, j)
           /\ UNCHANGED <<_birth_range, outside>>

SpecForms == InitAttach /\ [][NextForms]_vars

-----------------------------------------------------------------------------
(* Claims *)

\* C1 (as claimed): every stored exam and intervention row has a BMI if and
\* only if its height and its weight are both present and its height is > 0,
\* a weight of 0 included.
C1_BmiIffHeightAndWeight ==
    /\ \A r \in exams :
           (r.bmi # None) <=>
               (r.height_cm # None /\ r.weight_kg # None /\ r.height_cm[1] > 0)
    /\ \A r \in interventions :
           (r.bmi # None) <=>
               (r.height_cm # None /\ r.weight_kg # None /\ r.height_cm[1] > 0)

\* C2: a stored BMI b = <<n, d>> is weight_kg / (height_cm/100)^2 of the height
\* and weight stored in the same row, that is n/d = 10000 * weight / height^2.
IsBmiOf(b, height_cm, weight_kg) ==
    /\ height_cm # None /\ weight_kg # None /\ b[1][2] > 0
    /\ b[1][1] * height_cm[1] * height_cm[1] = 10000 * weight_kg[1] * b[1][2]

C2_BmiOfCurrentRow ==
    /\ \A r \in exams : r.bmi # None => IsBmiOf(r.bmi, r.height_cm, r.weight_kg)
    /\ \A r \in interventions :
           r.bmi # None => IsBmiOf(r.bmi, r.height_cm, r.weight_kg)

\* an update has just rewritten a row, and the row has a BMI
C2_Witness ==
    /\ lastOp.op = "update_exam"
    /\ \E r \in exams : r.bmi # None /\ r.height_cm = Some(180)

\* C3: no two distinct patient rows hold the same non-NULL patient_code.
C3_PatientCodeUnique ==
    \A p, q \in patients :
        (p # q /\ p.patient_code # None) => p.patient_code # q.patient_code

\* an update was refused for its code while two patients hold two codes
C3_Witness ==
    /\ lastOp.op = "update_patient"
    /\ lastOp.err = UniqueViolation
    /\ \E p, q \in patients :
           p.patient_code = Some("A") /\ q.patient_code = Some("B")

\* C4: add_patient with a code some patient holds, and update_patient of an
\* existing patient with a code another patient holds, raise IntegrityError
\* (the UNIQUE violation, when the required fields are given) and leave the
\* patients table as it was.
Holds(code, rows) == code # None /\ \E p \in rows : p.patient_code = code

C4_DuplicateCodeRejected ==
    [][/\ lastOp'.op = "add_patient" =>
              \A i \in DOMAIN PatientInput :
                  (/\ add_patient(i, FALSE)
                   /\ Holds(PatientInput[i].patient_code, patients))
                  => /\ lastOp'.err.exc = "IntegrityError"
                     /\ PatientInput[i].first_name # None
                            => lastOp'.err = UniqueViolation
                     /\ lastOp'.ret = 0
                     /\ patients' = patients
       /\ lastOp'.op = "update_patient" =>
              \A pid \in Ids("patients"), i \in DOMAIN PatientInput :
                  (/\ update_patient(pid, i, FALSE)
                   /\ \E p \in patients : p.patient_id = pid
                   /\ Holds(PatientInput[i].patient_code,
                            {p \in patients : p.patient_id # pid}))
                  => /\ lastOp'.err.exc = "IntegrityError"
                     /\ PatientInput[i].first_name # None
                            => lastOp'.err = UniqueViolation
                     /\ patients' = patients
      ]_vars

\* an insert was refused for its code
C4_Witness ==
    /\ lastOp.op = "add_patient"
    /\ lastOp.err = UniqueViolation
    /\ \E p \in patients : p.patient_code = Some("A")

\* C5: the Add New Patient handler shows the duplicate-ID message exactly when
\* the insert failed on a patient_code collision, and shows every other
\* failure of the insert as "Error" with the underlying message.
C5_DuplicateReportedDistinctly ==
    lastOp.op = "AddPatientWindow.add_patient" =>
        /\ (lastOp.msg # <<>> /\ lastOp.msg[1] = "Save Error")
               <=> lastOp.err = UniqueViolation
        /\ (lastOp.err # NoError /\ lastOp.err # UniqueViolation)
               => lastOp.msg = <<"Error", lastOp.err.cause>>

\* the handler has just reported a duplicate
C5_Witness ==
    /\ lastOp.op = "AddPatientWindow.add_patient"
    /\ lastOp.err = UniqueViolation
    /\ lastOp.msg[1] = "Save Error"

\* C6: delete_patient(p) removes p, its exams and interventions and their
\* attachments, leaves no child row without its parent, and leaves the rows
\* of the other patients as they were.
NoOrphans ==
    /\ \A e \in exams : \E p \in patients : p.patient_id = e.patient_id
    /\ \A v \in interventions : \E p \in patients : p.patient_id = v.patient_id
    /\ \A a \in exam_attachments : \E e \in exams : e.exam_id = a.exam_id
    /\ \A a \in intervention_attachments :
           \E v \in interventions : v.intervention_id = a.intervention_id

C6_DeletePatientCascades ==
    [][lastOp'.op = "delete_patient" =>
           \A pid \in Ids("patients") :
               delete_patient(pid, FALSE) =>
                   /\ patients' = {p \in patients : p.patient_id # pid}
                   /\ exams' = {e \in exams : e.patient_id # pid}
                   /\ interventions' = {v \in interventions : v.patient_id # pid}
                   /\ exam_attachments' =
                          {a \in exam_attachments :
                              \E e \in exams :
                                  e.exam_id = a.exam_id /\ e.patient_id # pid}
                   /\ intervention_attachments' =
                          {a \in intervention_attachments :
                              \E v \in interventions :
                                  /\ v.intervention_id = a.intervention_id
                                  /\ v.patient_id # pid}
                   /\ NoOrphans'
      ]_vars

\* a patient with an exam and an attachment was deleted, another one is left
C6_Witness ==
    /\ lastOp.op = "delete_patient"
    /\ sqlite_sequence.patients = 2 /\ Cardinality(patients) = 1
    /\ sqlite_sequence.exams = 1 /\ exams = {}
    /\ sqlite_sequence.exam_attachments = 1 /\ exam_attachments = {}

\* C7: delete_exam(e) removes the row e and the attachments of e and nothing
\* else; delete_intervention(i) likewise.
C7_DeleteEventFrame ==
    [][/\ lastOp'.op = "delete_exam" =>
              \A id \in Ids("exams") :
                  delete_exam(id) =>
                      /\ exams' = {e \in exams : e.exam_id # id}
                      /\ exam_attachments' =
                             {a \in exam_attachments : a.exam_id # id}
                      /\ UNCHANGED <<patients, interventions,
                                     intervention_attachments>>
       /\ lastOp'.op = "delete_intervention" =>
              \A id \in Ids("interventions") :
                  delete_intervention(id) =>
                      /\ interventions' =
                             {v \in interventions : v.intervention_id # id}
                      /\ intervention_attachments' =
                             {a \in intervention_attachments :
                                 a.intervention_id # id}
                      /\ UNCHANGED <<patients, exams, exam_attachments>>
      ]_vars

\* an exam with an attachment was deleted, another exam is left
C7_Witness ==
    /\ lastOp.op = "delete_exam"
    /\ sqlite_sequence.exams = 2 /\ Cardinality(exams) = 1
    /\ sqlite_sequence.exam_attachments = 1 /\ exam_attachments = {}

\* C8: get_exams(p) and get_interventions(p) return exactly the rows of
\* patient p, dates descending; get_exam_attachments(e) and
\* get_intervention_attachments(i) return exactly the attachments of that
\* parent, file_id ascending.
Range(s) == {s[k] : k \in DOMAIN s}

C8_ReadManyOrdered ==
    [][/\ lastOp'.op = "get_exams" =>
              \A pid \in Ids("patients") :
                  get_exams(pid) =>
                      /\ Range(lastOp'.rows) = {e \in exams : e.patient_id = pid}
                      /\ Len(lastOp'.rows) = Cardinality(Range(lastOp'.rows))
                      /\ \A k \in 1 .. (Len(lastOp'.rows) - 1) :
                             lastOp'.rows[k].exam_date[1]
                                 >= lastOp'.rows[k + 1].exam_date[1]
       /\ lastOp'.op = "get_interventions" =>
              \A pid \in Ids("patients") :
                  get_interventions(pid) =>
                      /\ Range(lastOp'.rows) =
                             {v \in interventions : v.patient_id = pid}
                      /\ Len(lastOp'.rows) = Cardinality(Range(lastOp'.rows))
                      /\ \A k \in 1 .. (Len(lastOp'.rows) - 1) :
                             lastOp'.rows[k].intervention_date[1]
                                 >= lastOp'.rows[k + 1].intervention_date[1]
       /\ lastOp'.op = "get_exam_attachments" =>
              \A id \in Ids("exams") :
                  get_exam_attachments(id) =>
                      /\ \A a \in exam_attachments :
                             a.exam_id = id <=>
                                 \E r \in Range(lastOp'.rows) :
                                     /\ r.file_id = a.file_id
                                     /\ r.file_path = a.file_path
                                     /\ r.description = a.description
                      /\ \A r \in Range(lastOp'.rows) :
                             \E a \in exam_attachments : a.file_id = r.file_id
                      /\ \A k \in 1 .. (Len(lastOp'.rows) - 1) :
                             lastOp'.rows[k].file_id < lastOp'.rows[k + 1].file_id
       /\ lastOp'.op = "get_intervention_attachments" =>
              \A id \in Ids("interventions") :
                  get_intervention_attachments(id) =>
                      /\ \A a \in intervention_attachments :
                             a.intervention_id = id <=>
                                 \E r \in Range(lastOp'.rows) :
                                     /\ r.file_id = a.file_id
                                     /\ r.file_path = a.file_path
                                     /\ r.description = a.description
                      /\ \A r \in Range(lastOp'.rows) :
                             \E a \in intervention_attachments :
                                 a.file_id = r.file_id
                      /\ \A k \in 1 .. (Len(lastOp'.rows) - 1) :
                             lastOp'.rows[k].file_id < lastOp'.rows[k + 1].file_id
      ]_vars

\* get_exams returned two exams, the one inserted later first
C8_Witness ==
    /\ lastOp.op = "get_exams"
    /\ Len(lastOp.rows) = 2
    /\ lastOp.rows[1].exam_id > lastOp.rows[2].exam_id
    /\ lastOp.rows[1].exam_date[1] > lastOp.rows[2].exam_date[1]

\* C9: a successful add_patient / add_exam / add_intervention returns an
\* identifier no row of the table had, the read-one of that identifier then
\* returns the row with the values just given, and the read-one of an
\* identifier no row has returns None.
IsEventRow(r, pid, d, type, date, person) ==
    /\ r.patient_id = pid /\ r[type] = d.type /\ r[date] = d.date
    /\ r.notes = d.notes /\ r.height_cm = d.height_cm
    /\ r.weight_kg = d.weight_kg /\ r.assistive_device = d.assistive_device
    /\ r[person] = d.person

C9_CreateThenReadOne ==
    [][/\ (lastOp'.op = "add_patient" /\ lastOp'.err = NoError) =>
              \A i \in DOMAIN PatientInput, id \in Ids("patients") :
                  (add_patient(i, FALSE) /\ id = lastOp'.ret) =>
                      /\ \A p \in patients : p.patient_id # id
                      /\ get_patient_row(id)' = Some(PatientRow(id, PatientInput[i]))
       /\ (lastOp'.op = "add_exam" /\ lastOp'.err = NoError) =>
              \A pid \in Ids("patients"), i \in DOMAIN EventInput,
                 id \in Ids("exams") :
                  (add_exam(pid, EventInput[i]) /\ id = lastOp'.ret) =>
                      /\ \A e \in exams : e.exam_id # id
                      /\ get_exam_row(id)' # None
                      /\ (get_exam_row(id)')[1].exam_id = id
                      /\ IsEventRow((get_exam_row(id)')[1], pid, EventInput[i],
                                    "exam_type", "exam_date", "examiner")
       /\ (lastOp'.op = "add_intervention" /\ lastOp'.err = NoError) =>
              \A pid \in Ids("patients"), i \in DOMAIN EventInput,
                 id \in Ids("interventions") :
                  (add_intervention(pid, EventInput[i]) /\ id = lastOp'.ret) =>
                      /\ \A v \in interventions : v.intervention_id # id
                      /\ get_intervention_row(id)' # None
                      /\ (get_intervention_row(id)')[1].intervention_id = id
                      /\ IsEventRow((get_intervention_row(id)')[1], pid,
                                    EventInput[i], "intervention_type",
                                    "intervention_date", "operator")
       /\ lastOp'.op = "get_patient" =>
              \A id \in Ids("patients") :
                  (get_patient(id) /\ \A p \in patients : p.patient_id # id)
                      => lastOp'.rows = None
       /\ lastOp'.op = "get_exam" =>
              \A id \in Ids("exams") :
                  (get_exam(id) /\ \A e \in exams : e.exam_id # id)
                      => lastOp'.rows = None
       /\ lastOp'.op = "get_intervention" =>
              \A id \in Ids("interventions") :
                  (get_intervention(id)
                   /\ \A v \in interventions : v.intervention_id # id)
                      => lastOp'.rows = None
      ]_vars

\* add_exam returned 2 after exam 1 was deleted
C9_Witness ==
    /\ lastOp.op = "add_exam" /\ lastOp.err = NoError /\ lastOp.ret = 2
    /\ \A e \in exams : e.exam_id = 2
    /\ get_exam_row(2) # None

\* C10 (as claimed): after a successful update every field of the row but its
\* identifier holds the value the call was given, height and assistive_device
\* of a patient included.
C10_EventsOverwritten ==
    /\ lastOp'.op = "update_exam" =>
           \A id \in Ids("exams"), i \in DOMAIN EventInput :
               (update_exam(id, EventInput[i]) /\ lastOp'.err = NoError) =>
                   \A e \in exams :
                       e.exam_id = id =>
                           /\ get_exam_row(id)' # None
                           /\ IsEventRow((get_exam_row(id)')[1], e.patient_id,
                                         EventInput[i], "exam_type",
                                         "exam_date", "examiner")
    /\ lastOp'.op = "update_intervention" =>
           \A id \in Ids("interventions"), i \in DOMAIN EventInput :
               (update_intervention(id, EventInput[i]) /\ lastOp'.err = NoError) =>
                   \A v \in interventions :
                       v.intervention_id = id =>
                           /\ get_intervention_row(id)' # None
                           /\ IsEventRow((get_intervention_row(id)')[1],
                                         v.patient_id, EventInput[i],
                                         "intervention_type",
                                         "intervention_date", "operator")

C10_UpdateOverwritesEveryField ==
    [][/\ lastOp'.op = "update_patient" =>
              \A pid \in Ids("patients"), i \in DOMAIN PatientInput :
                  (update_patient(pid, i, FALSE) /\ lastOp'.err = NoError) =>
                      \A p \in patients :
                          p.patient_id = pid =>
                              get_patient_row(pid)'
                                  = Some(PatientRow(pid, PatientInput[i]))
       /\ C10_EventsOverwritten
      ]_vars

\* C10 (amended): after a successful update_patient every field of the row but
\* patient_id, height and assistive_device holds the value the call was given,
\* and height and assistive_device hold what they held before; after a
\* successful update_exam / update_intervention every field but the two
\* identifiers and the derived bmi holds the value the call was given.
C10_UpdateOverwritesSetColumns ==
    [][/\ lastOp'.op = "update_patient" =>
              \A pid \in Ids("patients"), i \in DOMAIN PatientInput :
                  (update_patient(pid, i, FALSE) /\ lastOp'.err = NoError) =>
                      \A p \in patients :
                          p.patient_id = pid =>
                              get_patient_row(pid)'
                                  = Some([PatientRow(pid, PatientInput[i])
                                            EXCEPT !.height = p.height,
                                                   !.assistive_device =
                                                       p.assistive_device])
       /\ C10_EventsOverwritten
      ]_vars

\* a patient inserted with height 170 was updated with the arguments of
\* another patient
C10_Witness ==
    /\ lastOp.op = "update_patient" /\ lastOp.err = NoError
    /\ \E p \in patients : p.height = Some(170) /\ p.last_name = Some("Lee")

\* C11: a mutating call that fails raises an error and leaves all five tables
\* (and their identifier counters) as they were, nothing of it pending in the
\* open transaction; a mutating call that succeeds has committed when it
\* returns.  A call naming a parent that does not exist, or leaving out a
\* required field, fails.
MutatingCalls ==
    {"add_patient", "update_patient", "delete_patient", "add_exam",
     "update_exam", "delete_exam", "add_exam_attachment",
     "delete_exam_attachment", "add_intervention", "update_intervention",
     "delete_intervention", "add_intervention_attachment",
     "delete_intervention_attachment"}

C11_FailedCallChangesNothing ==
    [][lastOp'.op \in MutatingCalls =>
          /\ lastOp'.err # NoError => UNCHANGED tables
          /\ lastOp'.err = NoError => ~in_transaction'
          /\ lastOp'.op = "add_exam" =>
                 \A pid \in Ids("patients"), i \in DOMAIN EventInput :
                     (add_exam(pid, EventInput[i]) /\ \A p \in patients : p.patient_id # pid)
                         => lastOp'.err.exc = "IntegrityError"
          /\ lastOp'.op = "add_intervention" =>
                 \A pid \in Ids("patients"), i \in DOMAIN EventInput :
                     (add_intervention(pid, EventInput[i])
                      /\ \A p \in patients : p.patient_id # pid)
                         => lastOp'.err.exc = "IntegrityError"
          /\ lastOp'.op = "add_exam_attachment" =>
                 \A id \in Ids("exams"), j \in DOMAIN AttachmentInput :
                     (add_exam_attachment(id, j) /\ \A e \in exams : e.exam_id # id)
                         => lastOp'.err.exc = "IntegrityError"
          /\ lastOp'.op = "add_intervention_attachment" =>
                 \A id \in Ids("interventions"), j \in DOMAIN AttachmentInput :
                     (add_intervention_attachment(id, j)
                      /\ \A v \in interventions : v.intervention_id # id)
                         => lastOp'.err.exc = "IntegrityError"
          /\ lastOp'.op = "add_patient" =>
                 \A i \in DOMAIN PatientInput :
                     (add_patient(i, FALSE)
                      /\ (PatientInput[i].first_name = None
                          \/ PatientInput[i].last_name = None
                          \/ PatientInput[i].birth_date = None))
                         => lastOp'.err.exc = "IntegrityError"
      ]_vars

\* an attachment insert naming an exam that does not exist was refused, next
\* to rows committed earlier
C11_Witness ==
    /\ lastOp.op = "add_exam_attachment" /\ lastOp.err = ForeignKeyViolation
    /\ in_transaction
    /\ patients # {} /\ exams # {}

\* C12: whatever fails in a snapshot attempt of the scheduler (the backup
\* directory cannot be made, the destination cannot be opened, the copy
\* raises), nothing leaves backup_database: the daemon thread is back at the
\* top of its loop, waiting for the midnight after now exactly as after a
\* successful attempt, and the main thread and the store saw nothing.
C12_BackupFailureContained ==
    [][\A fault \in BackupFaults :
           backup_loop_backup(fault) =>
               /\ backup_loop'.pc = "Idle"
               /\ backup_loop'.next_midnight = today + 1
               /\ UNCHANGED <<tables, lastOp>>
      ]_vars

\* the pass of day 2 failed in the copy and left its empty file, the pass of
\* day 3 was made all the same and failed at the directory
C12_Witness ==
    /\ backup_name(2) \in DOMAIN backups
    /\ backup_loop.pc = "Idle" /\ backup_loop.next_midnight = 4
    /\ backup_loop.err.exc = "PermissionError"

\* C13 (as claimed): a pass of the scheduler that the environment does not
\* fail writes the snapshot of the store to the file of the day.
C13_ScheduledSnapshotWritten ==
    [][backup_loop_backup("none") =>
           /\ backup_name(today) \in DOMAIN backups'
           /\ backups'[backup_name(today)] = snapshot
      ]_vars

\* C14 (as claimed): a snapshot on demand that the environment does not fail
\* returns, and then the backup directory holds exactly one file of the day,
\* named <base>_backup_<YYYYMMDD>.db, whose content is the store as it is now.
C14_OneSnapshotPerDay ==
    [][(returned /\ backup_database("none")) =>
           /\ lastOp'.err = NoError
           /\ {n \in DOMAIN backups' : n[3] = strftime(today)}
                  = {backup_name(today)}
           /\ backups'[backup_name(today)] = snapshot
      ]_vars

\* The same with no transaction left open by a failed call: not the claim,
\* the case in which it holds.
C14_OneSnapshotPerDayAfterCommit ==
    [][(returned /\ ~in_transaction /\ backup_database("none")) =>
           /\ lastOp'.err = NoError
           /\ {n \in DOMAIN backups' : n[3] = strftime(today)}
                  = {backup_name(today)}
           /\ backups'[backup_name(today)] = snapshot
      ]_vars

\* C15 (as claimed): with a non-empty filter text, a valid field and no birth
\* range in force, search_patients returns exactly the patients whose value in
\* that field contains the filter text as a substring (letters compared
\* without regard to case), each once, in ascending order of last name.
Contains(text, part) ==
    \E i \in 0 .. Len(text) :
        /\ i + Len(part) <= Len(text)
        /\ \A k \in 1 .. Len(part) : lower(text[i + k]) = lower(part[k])

NoRangeInForce ==
    \/ _birth_range = None
    \/ /\ _birth_range[1] \in {None, Some(0)}
       /\ _birth_range[2] \in {None, Some(0)}

AscendingByLastName(rows) ==
    \A i, j \in DOMAIN rows :
        i < j => text_le(chars(rows[i].last_name[1]), chars(rows[j].last_name[1]))

C15_SearchBySubstring ==
    [][lastOp'.op = "search_patients" =>
          \A f \in DOMAIN FilterInput :
              \A field \in {"last_name", "diagnosis", "patient_code", "post_number"} :
                  (/\ search_patients(FilterInput[f], field)
                   /\ FilterInput[f] # ""
                   /\ NoRangeInForce) =>
                      /\ Range(lastOp'.rows) =
                             {p \in patients :
                                 /\ p[field] # None
                                 /\ Contains(chars(p[field][1]),
                                             chars(FilterInput[f]))}
                      /\ Len(lastOp'.rows) = Cardinality(Range(lastOp'.rows))
                      /\ AscendingByLastName(lastOp'.rows)
      ]_vars

\* C16: search_patients returns a patient if and only if it passes the text
\* filter (an empty filter text passes every patient), its birth date is not
\* before the start of the range when a start is set, and not after the end
\* when an end is set.
StartSet == _birth_range # None /\ _birth_range[1] \notin {None, Some(0)}
EndSet == _birth_range # None /\ _birth_range[2] \notin {None, Some(0)}

PassesTextFilter(p, filter_text, field) ==
    \/ filter_text = ""
    \/ /\ p[search_field(field)] # None
       /\ like(<<37>> \o chars(filter_text) \o <<37>>,
               chars(p[search_field(field)][1]))

C16_SearchTextAndBirthRange ==
    [][lastOp'.op = "search_patients" =>
          \A f \in DOMAIN FilterInput, c \in DOMAIN FieldInput :
              search_patients(FilterInput[f], FieldInput[c]) =>
                  /\ Range(lastOp'.rows) =
                         {p \in patients :
                             /\ PassesTextFilter(p, FilterInput[f], FieldInput[c])
                             /\ StartSet => ~(p.birth_date[1] < _birth_range[1][1])
                             /\ EndSet => ~(p.birth_date[1] > _birth_range[2][1])}
                  /\ Len(lastOp'.rows) = Cardinality(Range(lastOp'.rows))
      ]_vars

\* of two patients, the search returned the one born on the day that is both
\* the start and the end of the range
C16_Witness ==
    /\ lastOp.op = "search_patients"
    /\ Cardinality(patients) = 2
    /\ _birth_range = <<Some(19900501), Some(19900501)>>
    /\ Len(lastOp.rows) = 1
    /\ lastOp.rows[1].birth_date = Some(19900501)

\* A date text names a day of the calendar.
IsCalendarDate(t) ==
    LET y == t \div 10000
        m == (t \div 100) % 100
        d == t % 100
    IN  /\ y >= 1
        /\ m \in 1 .. 12
        /\ d \in 1 .. 31
        /\ m \in {4, 6, 9, 11} => d <= 30
        /\ m = 2 => d <= 29
        /\ (m = 2 /\ d = 29) => (y % 4 = 0 /\ (y % 100 # 0 \/ y % 400 = 0))

\* The Julian day number of a calendar date.
JulianDay(t) ==
    LET a == (14 - ((t \div 100) % 100)) \div 12
        y == (t \div 10000) + 4800 - a
        m == ((t \div 100) % 100) + 12 * a - 3
    IN  (t % 100) + ((153 * m + 2) \div 5) + 365 * y + (y \div 4)
        - (y \div 100) + (y \div 400) - 32045

\* A date text is given and names a day.
DateGiven(text) == text # None /\ text # Some(0) /\ IsCalendarDate(text[1])

\* C17: the age at an event is the empty text when either date text is
\* missing or names no day; otherwise it is "{years}y, {months}m" where, for
\* the d days from the birth date to the event date, years is the floor of
\* d / 365.25 and months is the floor of (d mod 365.25) / 30.44.  A birth on
\* 1990-05-01 and an event on 2024-01-10 give "33y, 8m".
C17_AgeAtEvent ==
    [][\A e \in EventDateInput :
         (lastOp'.op = "_calculate_age_at_event" /\ _calculate_age_at_event(e))
         => LET r == lastOp'.rows
                d == JulianDay(e[1]) - JulianDay(patient_birth_date[1])
            IN  IF ~DateGiven(patient_birth_date) \/ ~DateGiven(e)
                THEN r = <<>>
                ELSE /\ Len(r) = 4
                     /\ r[2] = "y, "
                     /\ r[4] = "m"
                     \* years <= d / 365.25 < years + 1
                     /\ 1461 * r[1] <= 4 * d
                     /\ 4 * d < 1461 * (r[1] + 1)
                     \* months <= (d - 365.25 * years) / 30.44 < months + 1
                     /\ 3044 * r[3] <= 25 * (4 * d - 1461 * r[1])
                     /\ 25 * (4 * d - 1461 * r[1]) < 3044 * (r[3] + 1)
                     /\ (patient_birth_date = Some(19900501)
                         /\ e = Some(20240110))
                        => (r[1] = 33 /\ r[3] = 8)]_vars

C17_Witness ==
    /\ lastOp.op = "_calculate_age_at_event"
    /\ patient_birth_date = Some(19900501)
    /\ lastOp.rows = <<33, "y, ", 8, "m">>

\* C18: the age at an event is a function of the two date texts alone, the
\* same whatever the day and the store; when the event is not before the
\* birth, neither the years nor the months are negative.
C18_AgeDependsOnDatesOnly ==
    [][\A e \in EventDateInput :
         (lastOp'.op = "_calculate_age_at_event" /\ _calculate_age_at_event(e))
         => /\ \A day \in 1 .. MaxDays :
                 today = day
                 => lastOp'.rows = age_text(patient_birth_date, e)
            /\ (/\ DateGiven(patient_birth_date)
                /\ DateGiven(e)
                /\ JulianDay(e[1]) >= JulianDay(patient_birth_date[1]))
               => (lastOp'.rows[1] >= 0 /\ lastOp'.rows[3] >= 0)]_vars

C18_Witness ==
    /\ lastOp.op = "_calculate_age_at_event"
    /\ today > 1
    /\ patient_birth_date = Some(20000229)
    /\ lastOp.rows = <<4, "y, ", 0, "m">>

\* An attachment row refers to a file whose copy was completed in this step.
CopiedInThisStep(a) ==
    \E file \in attachments' \ attachments :
        file.path = a.file_path[1] /\ file.complete

\* C19: an attach operation whose source file does not exist or whose copy
\* fails shows an error and leaves the tables as they were; every row an
\* attach operation creates refers to a file whose copy was completed before
\* the row was inserted.
C19_FailedAttachCreatesNoRow ==
    [][\A event_type \in {"Exam", "Intervention"}, f \in DOMAIN FileInput,
          fault \in CopyFaults :
         (lastOp'.op = "add_attachment" /\ add_attachment(event_type, 1, f, fault))
         => /\ (FileInput[f].name # ""
                /\ (~FileInput[f].exists \/ fault # "none"))
               => /\ lastOp'.msg # <<>>
                  /\ lastOp'.msg[1] = "Error"
                  /\ tables' = tables
            /\ \A a \in exam_attachments' \ exam_attachments :
                   CopiedInThisStep(a)
            /\ \A a \in intervention_attachments' \ intervention_attachments :
                   CopiedInThisStep(a)]_vars

C19_Witness ==
    /\ lastOp.op = "add_attachment"
    /\ lastOp.msg = <<"Error", "No such file or directory">>
    /\ Cardinality(exam_attachments) = 1
    /\ \A a \in exam_attachments :
           \E file \in attachments : file.path = a.file_path[1] /\ file.complete

\* C20: a confirmed deletion of an attachment removes its row and reports
\* nothing, whether the file is removed, cannot be removed, or is missing.
C20_DeleteRowWhateverTheFile ==
    [][\A event_type \in {"Exam", "Intervention"}, fault \in BOOLEAN :
         \A a \in attach_tree(event_type, 1) :
             (lastOp'.op = "delete_attachment"
              /\ delete_attachment(event_type, Some(a), TRUE, fault))
             => /\ \A b \in exam_attachments' :
                       event_type = "Exam" => b.file_id # a.file_id
                /\ \A b \in intervention_attachments' :
                       event_type = "Intervention" => b.file_id # a.file_id
                /\ lastOp'.err = NoError
                /\ lastOp'.msg = <<>>]_vars

\* The only exam attachment ever made is deleted, its file could not be
\* removed.
C20_Witness ==
    /\ lastOp.op = "delete_attachment"
    /\ lastOp.msg = <<>>
    /\ sqlite_sequence.exam_attachments = 1
    /\ sqlite_sequence.intervention_attachments = 0
    /\ exam_attachments = {}
    /\ \E file \in attachments : file.complete

\* C23: search_patients with a non-empty filter text and a field that is none
\* of last_name, diagnosis, patient_code, post_number does not fail, searches
\* the last_name column and returns what the call with field last_name
\* returns.
C23_InvalidFieldFallsBack ==
    [][lastOp'.op = "search_patients" =>
          \A f \in DOMAIN FilterInput, c \in DOMAIN FieldInput :
              (/\ FilterInput[f] # ""
               /\ FieldInput[c] \notin {"last_name", "diagnosis", "patient_code",
                                        "post_number"}
               /\ search_patients(FilterInput[f], FieldInput[c])) =>
                  /\ lastOp'.err = NoError
                  /\ search_field(FieldInput[c]) = "last_name"
                  /\ lastOp'.rows \in search_patients_rows(FilterInput[f], "last_name")
      ]_vars

\* the only patient has "ACL" as city and not in the last name: a search
\* found nothing
C23_Witness ==
    /\ lastOp.op = "search_patients"
    /\ lastOp.rows = <<>>
    /\ _birth_range = None
    /\ Cardinality(patients) = 1
    /\ \A p \in patients : p.city = Some("ACL") /\ p.last_name = Some("Zed")

\* C28: the birth-date range is kept by the Database instance.  Only
\* set_birth_range changes it, and to the pair it is given; a search never
\* changes it; every search, whatever its filter text and field, returns the
\* patients that pass the text filter and lie in the range last set, and all
\* that pass the text filter while none was ever set.
C28_BirthRangeIsKept ==
    [][/\ lastOp'.op # "set_birth_range" => _birth_range' = _birth_range
       /\ \A a, b \in DOMAIN RangeInput :
              (lastOp'.op = "set_birth_range"
               /\ set_birth_range(RangeInput[a], RangeInput[b]))
              => _birth_range' = <<RangeInput[a], RangeInput[b]>>
       /\ \A f \in DOMAIN FilterInput, c \in DOMAIN FieldInput :
              (lastOp'.op = "search_patients"
               /\ search_patients(FilterInput[f], FieldInput[c]))
              => /\ _birth_range' = _birth_range
                 /\ \A p \in Range(lastOp'.rows) :
                        /\ StartSet => p.birth_date[1] >= _birth_range[1][1]
                        /\ EndSet => p.birth_date[1] <= _birth_range[2][1]
                 /\ _birth_range = None =>
                        Range(lastOp'.rows) =
                            {p \in patients :
                                PassesTextFilter(p, FilterInput[f], FieldInput[c])}
      ]_vars

\* a start was set, then a search returned only the patient born on it, and
\* the range is still there
C28_Witness ==
    /\ lastOp.op = "search_patients"
    /\ _birth_range = <<Some(19900501), None>>
    /\ Cardinality(patients) = 2
    /\ Len(lastOp.rows) = 1
    /\ lastOp.rows[1].last_name = Some("Doe")

\* The files named by the attachment rows a step removes.
PathsOfRemovedRows ==
    {a.file_path[1] : a \in exam_attachments \ exam_attachments'}
    \cup {a.file_path[1] : a \in intervention_attachments \ intervention_attachments'}

\* C29: delete_exam, delete_intervention and delete_patient leave every file
\* under the attachments directory where it is, also the files of the
\* attachment rows their cascade removes, which no row names afterwards; the
\* application removes a file only in delete_attachment.
C29_CascadeLeavesFiles ==
    [][/\ (/\ lastOp'.op \in {"delete_exam", "delete_intervention", "delete_patient"}
           /\ ~file_removed_outside)
          => /\ attachments' = attachments
             /\ \A f \in attachments :
                    f.path \in PathsOfRemovedRows
                    => /\ f \in attachments'
                       /\ \A a \in exam_attachments' : a.file_path # Some(f.path)
                       /\ \A a \in intervention_attachments' :
                              a.file_path # Some(f.path)
       /\ (attachments \ attachments' # {})
          => (lastOp'.op = "delete_attachment" \/ file_removed_outside)
      ]_vars

\* the exam was deleted with its only attachment row; the copied file is
\* still there
C29_Witness ==
    /\ lastOp.op = "delete_exam"
    /\ exams = {}
    /\ exam_attachments = {}
    /\ sqlite_sequence.exam_attachments = 1
    /\ \E f \in attachments : f.complete /\ f.path.dir[2] = "exams"

-----------------------------------------------------------------------------
(* C22 *)

\* C22: with the default backup directory name, every snapshot file is
\* written into the directory named backups beside the database file,
\* whatever the working directory of the process.
C22_BackupsBesideTheStore ==
    [][backups' # backups
          => backup_dir_path = SubSeq(db_path, 1, Len(db_path) - 1) \o <<"backups">>]_vars

-----------------------------------------------------------------------------
(* C24, C25 *)

AllColumns(kind) ==
    UNION {{<<t, c>> : c \in schema[t][kind]} : t \in DOMAIN schema}

EveryTableExists == \A t \in DOMAIN schema : \E tc \in columns : tc[1] = t

\* C24: in the schema setup a failed add-column is ignored only when the
\* column already exists; when it fails for another reason (the store is
\* locked, is read-only, cannot be written) the startup is aborted.
C24_OnlyDuplicateColumnIgnored ==
    [][\A fault \in {"database is locked", "attempt to write a readonly database",
                     "disk I/O error"} :
           (/\ __init__(fault)
            /\ EveryTableExists
            /\ AllColumns("optional") \ columns # {})
           => lastOp'.err # NoError]_vars

\* C25: create_tables is idempotent: called on a store that has every table
\* and column it returns normally and leaves tables, columns and rows as they
\* were, whether or not the engine accepts writes; called on a store of an
\* earlier version it adds the optional columns that are missing, keeps the
\* columns that are there and changes no row.
C25_CreateTablesIdempotent ==
    [][/\ \A fault \in {"none", "database is locked",
                        "attempt to write a readonly database", "disk I/O error"} :
              (/\ __init__(fault) \/ create_tables(fault)
               /\ columns = AllColumns("base") \cup AllColumns("optional"))
              => /\ lastOp'.err = NoError
                 /\ columns' = columns
                 /\ UNCHANGED tables
       /\ (/\ __init__("none") \/ create_tables("none")
           /\ EveryTableExists)
          => /\ lastOp'.err = NoError
             /\ columns' = columns \cup AllColumns("optional")
             /\ UNCHANGED tables]_vars

\* create_tables has been called again on the upgraded store of an earlier
\* version, with its row.
C25_Witness ==
    /\ lastOp.op = "create_tables"
    /\ lastOp.err = NoError
    /\ columns = AllColumns("base") \cup AllColumns("optional")
    /\ \E p \in patients : p.gender # None /\ p.email = None

-----------------------------------------------------------------------------
(* C26 *)

StoreOpened ==
    lastOp.op # "main" /\ (lastOp.op = "__init__" => lastOp.err = NoError)

\* C26: at every moment after the store is opened exactly one backup
\* scheduler thread exists, whatever calls are made on the store.
C26_OneScheduler == StoreOpened => threads = 1

-----------------------------------------------------------------------------
(* C21, C30 *)

\* C21: the scheduler thread is Idle (waiting) or Running (attempting) for
\* ever.  The wait of each pass is max(1, seconds until the next local
\* midnight): at least one second, at most 24 hours.  An attempt is made only
\* by the Running thread, which became Running only when the wait it began
\* with was over; after the one attempt the thread is Idle again, waiting for
\* the midnight after.  While the thread is scheduled and keeps time, every
\* day that begins gets its attempt.
C21_SchedulerCycle ==
    /\ [](backup_loop.pc \in {"Idle", "Running"})
    /\ [](backup_loop.wait \in 1000 .. 86400000)
    /\ [][backup_loop'.pc = "Running" /\ backup_loop.pc # "Running"
             => backup_loop.pc = "Idle" /\ today >= backup_loop.next_midnight]_vars
    /\ [][backups' # backups \/ backup_loop'.err # backup_loop.err
             => backup_loop.pc = "Running"]_vars
    /\ [][backup_loop.pc = "Running" /\ backup_loop'.pc # "Running"
             => /\ backup_loop'.pc = "Idle"
                /\ backup_loop'.next_midnight = today + 1
                /\ backup_name(today) \in DOMAIN backups'
                   \/ backup_loop'.err.cause \in {"mkdir", "unable to open database file"}]_vars
    /\ \A d \in 2 .. MaxDays :
           (today = d) ~> (/\ today = d
                           /\ backup_loop.pc = "Idle"
                           /\ backup_loop.next_midnight = d + 1)

\* After the attempts of two nights the thread waits again, for the one
\* second that is the least it waits.
C21_Witness ==
    /\ today = 3
    /\ backup_loop.pc = "Idle"
    /\ backup_loop.next_midnight = 4
    /\ backup_loop.wait = 1000
    /\ {backup_name(2), backup_name(3)} \subseteq DOMAIN backups

\* C30: opening the store takes no snapshot: until the first local midnight
\* after the start the scheduler has made no attempt and no backup file
\* exists, so a process that ends before that midnight leaves none; the first
\* attempt is made on the day after the start or later.
C30_NoSnapshotBeforeMidnight ==
    /\ [](today = 1 => /\ backup_loop.pc = "Idle"
                       /\ backup_loop.next_midnight = 2
                       /\ backup_loop.err = NoError
                       /\ backups = <<>>)
    /\ [][backup_loop'.pc = "Running" \/ backups' # backups => today >= 2]_vars

\* On the day of the start, after calls on the store: no snapshot yet.
C30_Witness ==
    /\ today = 1
    /\ lastOp.op = "add_patient"
    /\ patients # {}
    /\ backups = <<>>
    /\ backup_loop.pc = "Idle"

-----------------------------------------------------------------------------
(* C27 *)

\* A text of digits, with spaces around it or not.
IsNumberText(t) ==
    \E a, b \in 1 .. Len(t) :
        /\ a <= b
        /\ \A k \in 1 .. Len(t) :
               IF k < a \/ k > b THEN t[k] = 32 ELSE t[k] \in 48 .. 57

IsBlankText(t) == \A k \in 1 .. Len(t) : t[k] = 32

EventFormValid(f) ==
    /\ f.type \notin {"", " "}
    /\ f.date_var # 0
    /\ IsBlankText(f.height) \/ IsNumberText(f.height)
    /\ IsBlankText(f.weight) \/ IsNumberText(f.weight)

PatientFormValid(f) ==
    /\ f.first_name \notin {"", " "}
    /\ f.last_name \notin {"", " "}
    /\ f.birth_date_var # 0

IsWarning(msg) ==
    /\ msg # <<>>
    /\ msg[1] \in {"Missing data", "Missing Required Data", "Invalid height",
                   "Invalid weight"}

Refused == IsWarning(lastOp'.msg) /\ UNCHANGED <<tables, in_transaction>>

\* C27: on every submit path (add patient, edit patient, add and edit exam,
\* add and edit intervention) the store is called only if the required
\* entries (first name, last name and birth date; type and date of the event)
\* are not empty and each of height and weight is empty or a number;
\* otherwise the handler shows a validation warning and the store is neither
\* called nor changed.
C27_SubmitValidates ==
    [][/\ \A j \in DOMAIN EventForm :
              /\ PatientDetailWindow_add_exam(1, j) =>
                     IF EventFormValid(EventForm[j])
                     THEN lastOp'.op = "add_exam" ELSE Refused
              /\ PatientDetailWindow_add_intervention(2, j) =>
                     IF EventFormValid(EventForm[j])
                     THEN lastOp'.op = "add_intervention" ELSE Refused
              /\ EditExamWindow_save(1, j) =>
                     IF EventFormValid(EventForm[j])
                     THEN lastOp'.op = "update_exam" ELSE Refused
              /\ EditInterventionWindow_save(1, j) =>
                     IF EventFormValid(EventForm[j])
                     THEN lastOp'.op = "update_intervention" ELSE Refused
       /\ \A j \in {3, 4, 5} :
              /\ AddPatientWindow_add_patient(j, FALSE) =>
                     IF PatientFormValid(PatientForm[j])
                     THEN ~IsWarning(lastOp'.msg) ELSE Refused
              /\ EditPatientWindow_save(2, j, FALSE) =>
                     IF PatientFormValid(PatientForm[j])
                     THEN ~IsWarning(lastOp'.msg) ELSE Refused]_vars

\* A form with a height that is no number has just been refused by the
\* editor of an exam, after a form with numbers was saved by the exam form.
C27_Witness ==
    /\ lastOp.op = "EditExamWindow.save"
    /\ lastOp.msg = <<"Invalid height", "Height must be a number.">>
    /\ \E e \in exams : e.exam_id = 2 /\ e.height_cm = Some(170) /\ e.weight_kg = Some(65)

=============================================================================
